---- MODULE Spec2Model ----
(***************************************************************************)
(* A model of w-orm: the global connection (init / disconnect), store      *)
(* resolution (_objectStore), the scoped transaction coordinator           *)
(* (Transaction) and the query engine (Query), running on the cooperative  *)
(* event loop of the host: one task at a time, each followed by its        *)
(* microtasks.  The storage engine (IndexedDB) is the environment; it is   *)
(* modelled by what the W3C IndexedDB specification says of the calls the  *)
(* source makes on it.                                                     *)
(***************************************************************************)
EXTENDS Integers, Sequences, FiniteSets, TLC

\* ------------------------------------------------------------------ bounds
MaxInit == 2        \* init calls in one behaviour
MaxVersion == 2     \* versions passed to init: 1..MaxVersion
MaxKey == 1         \* primary keys: 1..MaxKey
MaxCbSteps == 2     \* storage operations and waits of one transaction callback
MaxId == 2          \* rows of the queried store: ids 1..MaxId
MaxVal == 1         \* numbers a field holds: 0..MaxVal
MaxLimit == 2        \* limit(n) and offset(k) take 0..MaxLimit
MaxRecs == 2        \* records kept in the stores of One and Two
MaxGen == 2         \* invocations of the generator default
MaxFilters == 1     \* entries of a query's filter map

\* the encoding of the values that are not numbers
NullV == -1
UndefinedV == -2
\* query.ts: BetweenFilter.minKey (-Infinity) and maxKey ([[]]): below and above
\* every key
minKey == -100
maxKey == 100

Callers == 1..MaxInit
Versions == 1..MaxVersion
Keys == 1..MaxKey

\* ------------------------------------------------------------ record types
\* Two record types; Acct is declared with @Table({ name: 'accounts' }).
Models == {"User", "Acct"}

TablesMetadata ==
  [m \in Models |-> [tableName |-> IF m = "Acct" THEN "accounts" ELSE m]]

\* The stores createTables makes: one per record type, under its tableName.
createTables == {TablesMetadata[m].tableName : m \in Models}

StoreNames == createTables \cup Models

\* ------------------------------------------------------------------ errors
\* An error is its kind (the class name) and its message.
Err(kind, msg) == [kind |-> kind, msg |-> msg]

ParentKind ==
  [k \in {"WormError", "ConnectionError", "ModelError", "Error", "DOMException", "null"} |->
     CASE k = "ConnectionError" -> "WormError"
       [] k = "ModelError" -> "WormError"
       [] k = "WormError" -> "Error"
       [] k = "DOMException" -> "Error"
       [] OTHER -> k]

\* e instanceof K
InstanceOf(e, K) ==
  K \in {e.kind, ParentKind[e.kind], ParentKind[ParentKind[e.kind]]}

ConnectionError == Err("ConnectionError", "Database is not connected")
PendingMsg == "The transaction committed, but the callback is still pending"
\* (variant: a kind of its own)
PendingErrorOwnKind == Err("PendingError", PendingMsg)
PendingError == Err("WormError", PendingMsg)
OrderByError == Err("WormError", "Cannot order by field when using an index")
WithIndexError == Err("WormError", "Cannot order by field when using an index: don't use an index")
\* errors of the storage engine (DOMExceptions)
InvalidStateError == Err("DOMException", "InvalidStateError")
NotFoundError == Err("DOMException", "NotFoundError")
ConstraintError == Err("DOMException", "ConstraintError")
TransactionInactiveError == Err("DOMException", "TransactionInactiveError")
ReadOnlyError == Err("DOMException", "ReadOnlyError")
VersionError == Err("DOMException", "VersionError")
\* transaction.error read in the transaction's error handler: still null
NullError == Err("null", "null")
\* what the callback throws of its own
Rollback == Err("Error", "rollback")

\* values
Value(v) == [kind |-> "value", msg |-> v]
Undefined == Value("undefined")
None == [kind |-> "none", msg |-> ""]

\* promises
Pending == [st |-> "pending", val |-> None]
Resolved(v) == [st |-> "resolved", val |-> v]
Rejected(e) == [st |-> "rejected", val |-> e]
NotCalled == [st |-> "idle", val |-> None]

Ok == Value("ok")
IsErr(r) == r.kind \notin {"value", "none"}

\* =================================================================== Query
\* Field values.  null and undefined are kept apart from the numbers; the
\* numbers are the valid keys of the engine.
FieldVals == {UndefinedV, NullV} \cup (0..MaxVal)
IsValidKey(v) == v >= 0
DataError == Err("DOMException", "DataError")

\* The record type of the queries: id is the primary key, a is indexed (the
\* default), b is declared with index: false.
Fields == <<"id", "a", "b">>
FieldIndex == [f \in {"id", "a", "b"} |-> f # "b"]

\* metadata.ts: _getIndexableFields
_getIndexableFields == SelectSeq(Fields, LAMBDA f : FieldIndex[f])
includes(seq, x) == \E i \in 1..Len(seq) : seq[i] = x

\* query.ts: the filter values: a literal, a BetweenFilter, a function
Literal(v) ==
  [type |-> "literal", lower |-> v, upper |-> v, lowerOpen |-> FALSE,
   upperOpen |-> FALSE, fn |-> ""]
Between(lower, upper, lowerOpen, upperOpen) ==
  [type |-> "between", lower |-> lower, upper |-> upper, lowerOpen |-> lowerOpen,
   upperOpen |-> upperOpen, fn |-> ""]
Function(fn) ==
  [type |-> "function", lower |-> NullV, upper |-> NullV, lowerOpen |-> FALSE,
   upperOpen |-> FALSE, fn |-> fn]
NoFilter ==
  [type |-> "none", lower |-> NullV, upper |-> NullV, lowerOpen |-> FALSE,
   upperOpen |-> FALSE, fn |-> ""]

\* The values the callers filter with
FilterVals ==
  {Literal(v) : v \in {NullV} \cup (0..MaxVal)}
    \cup {Between(l, u, FALSE, FALSE) : l, u \in {NullV} \cup (0..MaxVal)}
    \cup {Between(0, MaxVal, TRUE, FALSE), Between(0, MaxVal, FALSE, TRUE),
          Between(0, MaxVal, TRUE, TRUE)}
    \cup {Function("truthy"), Function("nullish")}

\* The functions the callers filter with: v => !!v and v => v == null
call(fn, v) ==
  IF fn = "truthy" THEN v > 0 ELSE v \in {NullV, UndefinedV}

\* The relational operators of the language on a field value and a number:
\* undefined compares false, null compares as 0.
ToNumber(v) == IF v = NullV THEN 0 ELSE v
jsGT(v, n) == v # UndefinedV /\ ToNumber(v) > n
jsGE(v, n) == v # UndefinedV /\ ToNumber(v) >= n
jsLT(v, n) == v # UndefinedV /\ ToNumber(v) < n
jsLE(v, n) == v # UndefinedV /\ ToNumber(v) <= n

\* query.ts: BetweenFilter.fits, lines 74-90
\* (variant: the lower bound is taken as closed)
fitsLowerClosed(f, value) ==
  LET lowerCmp == IF f.lower \in {NullV, UndefinedV} THEN TRUE
                  ELSE jsGE(value, f.lower)
      upperCmp == IF f.upper \in {NullV, UndefinedV} THEN TRUE
                  ELSE IF f.upperOpen THEN jsLT(value, f.upper)
                  ELSE jsLE(value, f.upper)
  IN lowerCmp /\ upperCmp
fits(f, value) ==
  LET lowerCmp == IF f.lower \in {NullV, UndefinedV} THEN TRUE
                  ELSE IF f.lowerOpen THEN jsGT(value, f.lower)
                  ELSE jsGE(value, f.lower)
      upperCmp == IF f.upper \in {NullV, UndefinedV} THEN TRUE
                  ELSE IF f.upperOpen THEN jsLT(value, f.upper)
                  ELSE jsLE(value, f.upper)
  IN lowerCmp /\ upperCmp

\* query.ts: BetweenFilter.withDefault, lines 50-56
withDefault(val, defaultVal) ==
  IF val \in {NullV, UndefinedV} THEN defaultVal ELSE val

\* IDBKeyRange.bound and IDBKeyRange.only
KeyRange(lower, upper, lowerOpen, upperOpen) ==
  [err |-> None, all |-> FALSE, lower |-> lower, upper |-> upper,
   lowerOpen |-> lowerOpen, upperOpen |-> upperOpen]
RangeError(e) ==
  [err |-> e, all |-> FALSE, lower |-> 0, upper |-> 0, lowerOpen |-> FALSE,
   upperOpen |-> FALSE]
NoRange ==
  [err |-> None, all |-> TRUE, lower |-> 0, upper |-> 0, lowerOpen |-> FALSE,
   upperOpen |-> FALSE]
bound(lower, upper, lowerOpen, upperOpen) ==
  IF lower > upper \/ (lower = upper /\ (lowerOpen \/ upperOpen))
    THEN RangeError(DataError)
    ELSE KeyRange(lower, upper, lowerOpen, upperOpen)
only(v) ==
  IF ~IsValidKey(v) THEN RangeError(DataError) ELSE KeyRange(v, v, FALSE, FALSE)
inRange(r, k) ==
  \/ r.all
  \/ /\ IF r.lowerOpen THEN k > r.lower ELSE k >= r.lower
     /\ IF r.upperOpen THEN k < r.upper ELSE k <= r.upper

\* query.ts: BetweenFilter.keyRange, lines 62-67
keyRange(f) ==
  bound(withDefault(f.lower, minKey), withDefault(f.upper, maxKey),
        f.lowerOpen, f.upperOpen)

\* query.ts: Query, lines 119-133: a new query
NewQuery ==
  [filters |-> <<>>, _orderBy |-> "", _index |-> "", _indexQuery |-> NoFilter,
   _reverse |-> FALSE, _limit |-> UndefinedV, _skip |-> UndefinedV]

\* query.ts: Query.filter, lines 164-167, with the one entry {key: value}:
\* Object.assign keeps the place of a key the map has and appends a new one.
filter(qy, key, value) ==
  IF \E i \in 1..Len(qy.filters) : qy.filters[i].key = key
    THEN [qy EXCEPT !.filters =
            [i \in 1..Len(qy.filters) |->
               IF qy.filters[i].key = key
                 THEN [key |-> key, value |-> value] ELSE qy.filters[i]]]
    ELSE [qy EXCEPT !.filters = Append(@, [key |-> key, value |-> value])]

\* query.ts: Query.resetFilters, lines 180-183
resetFilters(qy) == [qy EXCEPT !.filters = <<>>]

\* A builder call returns the query or throws.
Returns(qy) == [err |-> None, q |-> qy]
Throws(e, qy) == [err |-> e, q |-> qy]

\* query.ts: Query.orderBy, lines 201-217; field is the string as the list of
\* its parts: <<"-", "a">> is '-a'.
startsWith(field, c) == Len(field) > 1 /\ Head(field) = c
\* (variant: no look at the index)
orderByUnguarded(qy, field) ==
  IF startsWith(field, "-")
    THEN Returns([qy EXCEPT !._reverse = TRUE, !._orderBy = Head(Tail(field))])
    ELSE Returns([qy EXCEPT !._reverse = FALSE, !._orderBy = Head(field)])
orderBy(qy, field) ==
  IF qy._index # "" THEN Throws(OrderByError, qy)
  ELSE IF startsWith(field, "-")
    THEN Returns([qy EXCEPT !._reverse = TRUE, !._orderBy = Head(Tail(field))])
    ELSE Returns([qy EXCEPT !._reverse = FALSE, !._orderBy = Head(field)])

\* query.ts: Query.reverse, lines 231-234
reverse(qy) == [qy EXCEPT !._reverse = ~@]

\* query.ts: Query.limit, lines 248-251
limit(qy, n) == [qy EXCEPT !._limit = n]

\* query.ts: Query.offset, lines 265-268
offset(qy, k) == [qy EXCEPT !._skip = k]

\* query.ts: Query.withIndex, lines 278-292
withIndex(qy, index, query) ==
  IF qy._orderBy # "" THEN Throws(WithIndexError, qy)
  ELSE Returns([qy EXCEPT !._index = index,
                          !._indexQuery = IF query.type # "none" THEN query ELSE @])

\* query.ts: Query.resetIndex, lines 294-298
resetIndex(qy) == [qy EXCEPT !._index = "", !._indexQuery = NoFilter]

\* query.ts: Query._fitsFilters, lines 305-326
fitsEntry(e, instance) ==
  IF e.value.type = "function" THEN call(e.value.fn, instance[e.key])
  ELSE IF e.value.type = "between" THEN fits(e.value, instance[e.key])
  ELSE instance[e.key] = e.value.lower
_fitsFilters(qy, instance) ==
  \A i \in 1..Len(qy.filters) : fitsEntry(qy.filters[i], instance)

\* query.ts: Query._getKeyRange, lines 335-340
_getKeyRange(value) ==
  IF value.type = "between" THEN keyRange(value) ELSE only(value.lower)

\* query.ts: Query._findSimpleFilter, lines 386-397
_findSimpleFilter(qy) ==
  LET ok == {i \in 1..Len(qy.filters) :
               /\ qy.filters[i].value.type # "function"
               /\ includes(_getIndexableFields, qy.filters[i].key)}
  IN IF ok = {} THEN [key |-> "", value |-> NoFilter]
     ELSE qy.filters[CHOOSE i \in ok : \A j \in ok : i <= j]

\* The engine's cursors: a store's rows by primary key, an index's rows (those
\* whose field is a valid key) by the field then the primary key; 'prev' runs
\* the other way.
rowLess(f, r, o) == r[f] < o[f] \/ (r[f] = o[f] /\ r.id < o.id)
RECURSIVE sortBy(_, _)
sortBy(S, f) ==
  IF S = {} THEN <<>>
  ELSE LET m == CHOOSE r \in S : \A o \in S : o = r \/ rowLess(f, r, o)
       IN <<m>> \o sortBy(S \ {m}, f)
reversed(seq) == [i \in 1..Len(seq) |-> seq[Len(seq) + 1 - i]]
\* (variant: 'prev' runs as 'next')
directionAlwaysNext(seq, prev) == seq
direction(seq, prev) == IF prev THEN reversed(seq) ELSE seq
storeCursor(tbl, prev) == direction(sortBy(tbl, "id"), prev)
indexCursor(tbl, f, range, prev) ==
  direction(sortBy({r \in tbl : IsValidKey(r[f]) /\ inRange(range, r[f])}, f), prev)

Cursor(seq) == [err |-> None, seq |-> seq]
CursorError(e) == [err |-> e, seq |-> <<>>]

\* IDBObjectStore.index(name) then openCursor(range, direction)
indexOpenCursor(tbl, name, range, prev) ==
  IF name \notin {"id", "a", "b"} \/ ~FieldIndex[name] THEN CursorError(NotFoundError)
  ELSE IF IsErr(range.err) THEN CursorError(range.err)
  ELSE Cursor(indexCursor(tbl, name, range, prev))

\* query.ts: Query._getCursor, lines 348-380
_getCursor(qy, tbl) ==
  IF qy._index # ""
    THEN indexOpenCursor(tbl, qy._index,
           IF qy._indexQuery.type = "none" THEN NoRange ELSE keyRange(qy._indexQuery),
           qy._reverse)
  ELSE IF qy._orderBy # ""
    THEN indexOpenCursor(tbl, qy._orderBy, NoRange, qy._reverse)
  ELSE LET simpleFilter == _findSimpleFilter(qy) IN
    IF simpleFilter.key # ""
      THEN indexOpenCursor(tbl, simpleFilter.key, _getKeyRange(simpleFilter.value),
                           qy._reverse)
      ELSE Cursor(storeCursor(tbl, qy._reverse))

\* query.ts: Query._cursorLogic, lines 415-447: request.onsuccess with the
\* cursor on a row.  st is what the closure holds (matches, skipped), the
\* rows given to the valueCallback so far, and whether the promise has been
\* resolved; stop is what the valueCallback answers.
CursorState(matches, skipped, out) ==
  [matches |-> matches, skipped |-> skipped, out |-> out, done |-> FALSE]
\* (variant: a row that fails the filters counts as a match)
onsuccessCountsAll(qy, st, row, stop) ==
  IF st.matches - st.skipped = qy._limit THEN [st EXCEPT !.done = TRUE]
  ELSE IF _fitsFilters(qy, row)
    THEN IF qy._skip \in {UndefinedV, 0} \/ st.matches >= qy._skip
           THEN IF stop THEN [st EXCEPT !.out = Append(@, row), !.done = TRUE]
                ELSE [st EXCEPT !.out = Append(@, row), !.matches = @ + 1]
           ELSE [st EXCEPT !.skipped = @ + 1, !.matches = @ + 1]
    ELSE [st EXCEPT !.matches = @ + 1]
onsuccess(qy, st, row, stop) ==
  IF st.matches - st.skipped = qy._limit THEN [st EXCEPT !.done = TRUE]
  ELSE IF _fitsFilters(qy, row)
    THEN IF qy._skip \in {UndefinedV, 0} \/ st.matches >= qy._skip
           THEN IF stop THEN [st EXCEPT !.out = Append(@, row), !.done = TRUE]
                ELSE [st EXCEPT !.out = Append(@, row), !.matches = @ + 1]
           ELSE [st EXCEPT !.skipped = @ + 1, !.matches = @ + 1]
    ELSE st

\* query.ts: Query._cursorLogic, lines 406-452: the rows given to the
\* valueCallback, the cursor going over seq from its i-th row.
RECURSIVE _cursorLogic(_, _, _, _, _, _, _)
_cursorLogic(qy, seq, i, matches, skipped, out, stop) ==
  IF i > Len(seq) THEN out
  ELSE LET st == onsuccess(qy, CursorState(matches, skipped, out), seq[i], stop) IN
       IF st.done THEN st.out
       ELSE _cursorLogic(qy, seq, i + 1, st.matches, st.skipped, st.out, stop)

\* What a query's terminal operation or builder call answered
Result(kind, err, out) == [kind |-> kind, err |-> err, rows |-> out, amount |-> 0]
Counted(kind, err, amount) == [Result(kind, err, <<>>) EXCEPT !.amount = amount]
NoResult == Result("none", None, <<>>)

\* query.ts: Query.all, lines 486-497
all(qy, tbl) ==
  LET c == _getCursor(qy, tbl) IN
  IF IsErr(c.err) THEN Result("all", c.err, <<>>)
  ELSE Result("all", None, _cursorLogic(qy, c.seq, 1, 0, 0, <<>>, FALSE))


\* The field whose index the cursor of _getCursor runs over (lines 348-380);
\* the primary key for the cursor of the store
cursorField(qy) ==
  IF qy._index # "" THEN qy._index
  ELSE IF qy._orderBy # "" THEN qy._orderBy
  ELSE IF _findSimpleFilter(qy).key # "" THEN _findSimpleFilter(qy).key
  ELSE "id"

\* The engine's cursor keeps the key and the primary key of the record it is
\* on; continue() moves it to the first record, of the records as they are
\* then, that lies past them in its direction.
Position(key, id) == [set |-> TRUE, key |-> key, id |-> id]
NoPosition == [set |-> FALSE, key |-> 0, id |-> 0]
past(qy, pos, r) ==
  LET k == r[cursorField(qy)] IN
  IF qy._reverse THEN k < pos.key \/ (k = pos.key /\ r.id < pos.id)
  ELSE k > pos.key \/ (k = pos.key /\ r.id > pos.id)
continue(qy, tbl, pos) ==
  SelectSeq(_getCursor(qy, tbl).seq, LAMBDA r : ~pos.set \/ past(qy, pos, r))

\* IDBCursor.delete() and IDBCursor.update(value) on the record of the cursor
\* (variant: delete() leaves the record)
cursorDeleteKeeps(tbl, row) == tbl
cursorDelete(tbl, row) == tbl \ {row}
assign(row, updates) ==
  [f \in DOMAIN row |->
     IF \E i \in 1..Len(updates) : updates[i].key = f
       THEN updates[CHOOSE i \in 1..Len(updates) : updates[i].key = f].value
       ELSE row[f]]
cursorUpdate(tbl, row, updates) == (tbl \ {row}) \cup {assign(row, updates)}

\* query.ts: Query._cursorLogic, lines 406-452, with the valueCallback of
\* delete (lines 533-537) or of update (lines 556-561): the callback changes
\* the record of the cursor and answers false, and continue() follows.
Deletes == [kind |-> "delete", updates |-> <<>>]
Updates(updates) == [kind |-> "update", updates |-> updates]
RECURSIVE editLoop(_, _, _, _, _)
editLoop(qy, tbl, pos, st, change) ==
  LET ahead == continue(qy, tbl, pos) IN
  IF ahead = <<>> THEN [table |-> tbl, out |-> st.out]
  ELSE LET row == Head(ahead)
           s1 == onsuccess(qy, st, row, FALSE)
           called == Len(s1.out) > Len(st.out)
           t1 == IF ~called THEN tbl
                 ELSE IF change.kind = "delete" THEN cursorDelete(tbl, row)
                 ELSE cursorUpdate(tbl, row, change.updates)
       IN IF s1.done THEN [table |-> tbl, out |-> s1.out]
          ELSE editLoop(qy, t1, Position(row[cursorField(qy)], row.id), s1, change)

\* query.ts: Query.delete, lines 530-540, and Query.update, lines 553-564:
\* the amount is the number of calls of the valueCallback
edit(kind, qy, tbl, change) ==
  LET c == _getCursor(qy, tbl) IN
  IF IsErr(c.err) THEN [res |-> Counted(kind, c.err, 0), table |-> tbl]
  ELSE LET e == editLoop(qy, tbl, NoPosition, CursorState(0, 0, <<>>), change) IN
       [res |-> Counted(kind, None, Len(e.out)), table |-> e.table]
delete(qy, tbl) == edit("delete", qy, tbl, Deletes)
update(qy, tbl, updates) == edit("update", qy, tbl, Updates(updates))

\* query.ts: Query.first, lines 463-474: the valueCallback keeps the row and
\* answers true; rows is the row kept, none for null.
first(qy, tbl) ==
  LET c == _getCursor(qy, tbl) IN
  IF IsErr(c.err) THEN Result("first", c.err, <<>>)
  ELSE Result("first", None, _cursorLogic(qy, c.seq, 1, 0, 0, <<>>, TRUE))

\* query.ts: Query._fitsFilters, line 306, and _findSimpleFilter, line 388:
\* Object.entries(this.filters) lists the own entries of the filters object and
\* none of the entries of its prototype.
\* (variant: the entries of the prototype too, as a for-in loop lists them)
entriesWithInherited(own, proto) ==
  own \o SelectSeq(proto, LAMBDA e : \A i \in 1..Len(own) : own[i].key # e.key)
entries(own, proto) == own

\* The queries made by clone(), and every query that runs a cursor loop
CloneIds == {"c1", "c2"}
Runners == {"q"} \cup CloneIds

\* query.ts: Query.clone, lines 618-623: a new Query; its filters object is an
\* empty object whose prototype is the filters object of the original (proto
\* names the query that owns it).  prefix is an observation: the entries the
\* prototype had when the clone was made.
clone(from, fromFilters) ==
  [made |-> TRUE, q |-> NewQuery, proto |-> from, prefix |-> fromFilters]
NoClone == [made |-> FALSE, q |-> NewQuery, proto |-> "", prefix |-> <<>>]

\* query.ts: Query.forEach, lines 596-598: the record of the row as an instance
\* of the model
materialize(value) == [model |-> "Test", fields |-> value]

\* What the caller's callback does with a record
Answers == {"undefined", "true", "throws", "rejects", "awaits"}
CallbackError == Err("Error", "callback")

\* query.ts: Query.forEach, lines 595-599: the valueCallback forEach gives to
\* the cursor loop.  It calls the callback with the instance and the
\* transaction and answers what the callback answers: a promise that resolves
\* with a truthy or a falsy value, at once or (awaits) after the callback has
\* waited for something that is not a request of the transaction, or a promise
\* that rejects with what the callback threw or rejected with.
\* (variant: the answer of the callback is dropped)
valueCallbackNeverStops(value, t, answer) ==
  [call |-> [instance |-> materialize(value), tx |-> t, answer |-> answer],
   outcome |-> CASE answer \in {"throws", "rejects"} -> "rejected"
                 [] answer = "awaits" -> "late"
                 [] OTHER -> "falsy"]
valueCallback(value, t, answer) ==
  [call |-> [instance |-> materialize(value), tx |-> t, answer |-> answer],
   outcome |-> CASE answer \in {"throws", "rejects"} -> "rejected"
                 [] answer = "awaits" -> "late"
                 [] answer = "true" -> "truthy"
                 [] OTHER -> "falsy"]

\* A cursor loop: the transaction and the cursor _getCursor opened, the row the
\* cursor is on, the closure of _cursorLogic, the promise _cursorLogic
\* returned; calls and failure are observations: the calls of the callback, and
\* the error raised inside the onsuccess handler.
NoCursorTx == [mode |-> "", store |-> ""]
NoRun == [st |-> "idle", kind |-> "none", tx |-> NoCursorTx, seq |-> <<>>, i |-> 0,
          cs |-> CursorState(0, 0, <<>>), promise |-> NotCalled,
          calls |-> <<>>, failure |-> None]


\* =================================================================== Model
\* The models of create and get, their fields in the order of declaration:
\*   One { id: primary key;  s: default DefaultS }
\*   Two { id: primary key;  g: default, a generator;  id2: primary key;
\*         n: no option }
\*   Three { id: primary key;  n: nullable false }
\* A field is nullable unless it is a primary key (decorators: Field).
\* An object is its value under every field name; a field the object does not
\* have reads undefined.
ItemModels == {"One", "Two"}
ItemFields == {"id", "s", "g", "id2", "n"}
DefaultS == 5
GenBase == 10

NoDefault == [kind |-> "none", v |-> UndefinedV]
Static(v) == [kind |-> "static", v |-> v]
Generator == [kind |-> "generator", v |-> UndefinedV]
FieldOpts(name, primaryKey, nullable, default) ==
  [name |-> name, primaryKey |-> primaryKey, nullable |-> nullable, default |-> default]

\* metadata.ts: TablesMetadata[model].fields, as the Field decorators fill it
tableFields(m) ==
  IF m = "One"
    THEN <<FieldOpts("id", TRUE, FALSE, NoDefault),
           FieldOpts("s", FALSE, TRUE, Static(DefaultS))>>
  ELSE IF m = "Three"
    THEN <<FieldOpts("id", TRUE, FALSE, NoDefault),
           FieldOpts("n", FALSE, FALSE, NoDefault)>>
    ELSE <<FieldOpts("id", TRUE, FALSE, NoDefault),
           FieldOpts("g", FALSE, TRUE, Generator),
           FieldOpts("id2", TRUE, FALSE, NoDefault),
           FieldOpts("n", FALSE, TRUE, NoDefault)>>

\* The generator default: each invocation answers a value of its own, so g
\* invocations before this one make it answer GenBase + g.
generate(g) == GenBase + g

Blank == [f \in ItemFields |-> UndefinedV]
Instance(m, fields) == [model |-> m, fields |-> fields]
Null == Instance("null", Blank)

\* metadata.ts: getPrimaryKeys, lines 121-133
\* (variant: the last declared first)
getPrimaryKeysLastFirst(m) ==
  LET pk == SelectSeq(tableFields(m), LAMBDA o : o.primaryKey)
  IN [i \in 1..Len(pk) |-> pk[Len(pk) + 1 - i].name]
getPrimaryKeys(m) ==
  LET pk == SelectSeq(tableFields(m), LAMBDA o : o.primaryKey)
  IN [i \in 1..Len(pk) |-> pk[i].name]

\* models.ts: Model.keys, lines 192-197
keys(instance) ==
  LET tableKeys == getPrimaryKeys(instance.model)
  IN [i \in 1..Len(tableKeys) |-> instance.fields[tableKeys[i]]]

\* metadata.ts: createTables, line 170: the key path of the store of a model;
\* the key of a value is what it holds along the key path.
keyPath(m) == getPrimaryKeys(m)
keyOf(m, value) == [i \in 1..Len(keyPath(m)) |-> value[keyPath(m)[i]]]

\* models.ts: Model.create, line 76: the error for a field left out
\* (variant: the message does not name the field)
NotNullableUnnamed(field) == Err("ModelError", "Field is not nullable")
NotNullable(field) ==
  Err("ModelError",
      CASE field = "id" -> "Field id is not nullable"
        [] field = "id2" -> "Field id2 is not nullable"
        [] field = "s" -> "Field s is not nullable"
        [] field = "g" -> "Field g is not nullable"
        [] OTHER -> "Field n is not nullable")

\* models.ts: Model.create, lines 65-79: the body of the loop for one field.
\* st is the instance so far, the count of the generator's invocations, and
\* the error thrown.
\* (variant: the default is applied whether the field is defined or not)
fieldStepAlways(st, fieldOpts) ==
  IF fieldOpts.default.kind # "none"
    THEN IF fieldOpts.default.kind = "generator"
           THEN [st EXCEPT !.fields[fieldOpts.name] = generate(st.gen), !.gen = @ + 1]
           ELSE [st EXCEPT !.fields[fieldOpts.name] = fieldOpts.default.v]
  ELSE IF st.fields[fieldOpts.name] = UndefinedV /\ ~fieldOpts.nullable
    THEN [st EXCEPT !.err = NotNullable(fieldOpts.name)]
    ELSE st
fieldStep(st, fieldOpts) ==
  IF st.fields[fieldOpts.name] = UndefinedV
    THEN IF fieldOpts.default.kind # "none"
           THEN IF fieldOpts.default.kind = "generator"
                  THEN [st EXCEPT !.fields[fieldOpts.name] = generate(st.gen), !.gen = @ + 1]
                  ELSE [st EXCEPT !.fields[fieldOpts.name] = fieldOpts.default.v]
         ELSE IF ~fieldOpts.nullable
           THEN [st EXCEPT !.err = NotNullable(fieldOpts.name)]
           ELSE st
    ELSE st

\* models.ts: Model.create, lines 64-80: the loop over the declared fields; the
\* throw ends it.
RECURSIVE fillFields(_, _, _)
fillFields(st, fields, i) ==
  IF i > Len(fields) \/ IsErr(st.err) THEN st
  ELSE fillFields(fieldStep(st, fields[i]), fields, i + 1)

\* IDBObjectStore.add(value) on the store of model m holding stored: the value
\* is cloned as a plain object and kept under its key.
StoredRec(m, value) == [model |-> m, key |-> keyOf(m, value), value |-> value]
\* (variant: a value whose key is held takes the place of the one held)
addOverwrites(stored, m, value) ==
  IF \E i \in 1..Len(keyPath(m)) : ~IsValidKey(keyOf(m, value)[i]) THEN DataError
  ELSE None
add(stored, m, value) ==
  IF \E i \in 1..Len(keyPath(m)) : ~IsValidKey(keyOf(m, value)[i]) THEN DataError
  ELSE IF \E r \in stored : r.model = m /\ r.key = keyOf(m, value) THEN ConstraintError
  ELSE None

\* models.ts: Model.create, lines 56-94, on a connected database outside any
\* transaction: what the promise settles with, the store and the generator's
\* count afterwards.
create(stored, g, m, values) ==
  LET st == fillFields([fields |-> values, gen |-> g, err |-> None], tableFields(m), 1)
  IN IF IsErr(st.err)
       THEN [err |-> st.err, instance |-> Null, stored |-> stored, gen |-> st.gen]
     ELSE IF IsErr(add(stored, m, st.fields))
       THEN [err |-> add(stored, m, st.fields), instance |-> Null, stored |-> stored,
             gen |-> st.gen]
     ELSE [err |-> None, instance |-> Instance(m, st.fields),
           stored |-> stored \cup {StoredRec(m, st.fields)}, gen |-> st.gen]

\* IDBObjectStore.put(value): the value takes the place of the one held
\* under its key, or is added
\* (variant: a key that is held keeps its value)
putKeepsHeld(stored, m, value) ==
  IF \E i \in 1..Len(keyPath(m)) : ~IsValidKey(keyOf(m, value)[i])
    THEN [err |-> DataError, stored |-> stored]
  ELSE IF \E r \in stored : r.model = m /\ r.key = keyOf(m, value)
    THEN [err |-> None, stored |-> stored]
  ELSE [err |-> None, stored |-> stored \cup {StoredRec(m, value)}]
put(stored, m, value) ==
  IF \E i \in 1..Len(keyPath(m)) : ~IsValidKey(keyOf(m, value)[i])
    THEN [err |-> DataError, stored |-> stored]
  ELSE [err |-> None,
        stored |-> {r \in stored : ~(r.model = m /\ r.key = keyOf(m, value))}
                     \cup {StoredRec(m, value)}]

\* models.ts: save, lines 218-230: store.put(this)
save(stored, instance) == put(stored, instance.model, instance.fields)

\* The key given to get: a value, or an array of values
Single(k) == [isArray |-> FALSE, parts |-> <<k>>]
Array(ks) == [isArray |-> TRUE, parts |-> ks]

\* models.ts: Model.get, lines 101-119
get(stored, m, key) ==
  LET wrapped == IF key.isArray THEN key.parts ELSE <<key.parts[1]>>
      found == {r \in stored : r.model = m /\ r.key = wrapped}
  IN IF found = {} THEN Null
     ELSE Instance(m, (CHOOSE r \in found : TRUE).value)

NoRet == [kind |-> "none", model |-> "", values |-> Blank, err |-> None,
          created |-> Null, genBefore |-> 0, key |-> Array(<<>>), got |-> Null,
          saved |-> FALSE]


\* ------------------------------------------------------ the metadata registry

\* A declaration writes an option or leaves it out
Given == {"unset", "true", "false"}
Partial(primaryKey, unique, nullable, index) ==
  [primaryKey |-> primaryKey, unique |-> unique, nullable |-> nullable,
   index |-> index]

\* fields.ts: Field, lines 72-79: the defaults, then the options written
newOptions(options) ==
  [primaryKey |-> options.primaryKey = "true",
   unique |-> options.unique = "true",
   nullable |-> IF options.nullable = "unset" THEN options.primaryKey # "true"
                ELSE options.nullable = "true",
   index |-> options.index # "false"]

\* metadata.ts: TablesMetadata after _resetMetadata (lines 42-44): no entry
\* for the class; the entry _handleTableData makes (lines 58-63). The classes
\* extend Model, which has no entry, so nothing is inherited.
NoMetadata ==
  [defined |-> FALSE, fields |-> <<>>, hasChild |-> FALSE, indexes |-> {},
   tableName |-> "", abstract |-> "unset"]
_handleTableData(registry, m) ==
  IF registry[m].defined THEN registry
  ELSE [registry EXCEPT ![m] = [NoMetadata EXCEPT !.defined = TRUE, !.tableName = m]]

\* metadata.ts: _addFieldToMetadata, lines 29-37: fields[fieldName] = options
\* keeps the place of a name the object already has
setField(fields, fieldName, options) ==
  IF \E i \in 1..Len(fields) : fields[i].name = fieldName
    THEN [i \in 1..Len(fields) |->
            IF fields[i].name = fieldName
              THEN [name |-> fieldName, options |-> options] ELSE fields[i]]
    ELSE Append(fields, [name |-> fieldName, options |-> options])
_addFieldToMetadata(registry, m, fieldName, options) ==
  [registry EXCEPT ![m].fields = setField(@, fieldName, options)]

ModelError(msg) == Err("ModelError", msg)
WormError(msg) == Err("WormError", msg)

\* fields.ts: Field(options)(object, propertyName), lines 53-86
Field(registry, m, propertyName, options) ==
  IF options.primaryKey = "true" /\ options.nullable = "true"
    THEN [err |-> ModelError("Primary key cannot be nullable"), registry |-> registry]
    ELSE [err |-> None,
          registry |-> _addFieldToMetadata(_handleTableData(registry, m), m,
                                           propertyName, newOptions(options))]

\* An index of the table options: a string, as its pieces ("&", "*", "+" and
\* the field names), or an object
IndexString(text) ==
  [form |-> "string", text |-> text, fields |-> <<>>, unique |-> FALSE,
   multiEntry |-> FALSE]
IndexObject(fields, unique, multiEntry) ==
  [form |-> "object", text |-> <<>>, fields |-> fields, unique |-> unique,
   multiEntry |-> multiEntry]
Index(fields, unique, multiEntry) ==
  [fields |-> fields, unique |-> unique, multiEntry |-> multiEntry]
textStartsWith(text, prefix) ==
  Len(text) >= Len(prefix) /\ SubSeq(text, 1, Len(prefix)) = prefix
split(text) == SelectSeq(text, LAMBDA c : c # "+")

\* metadata.ts: _parseIndex, lines 308-335
_parseIndex(index) ==
  IF index.form = "object"
    THEN [err |-> None, index |-> Index(index.fields, index.unique, index.multiEntry)]
  ELSE IF textStartsWith(index.text, <<"&", "*">>) \/ textStartsWith(index.text, <<"*", "&">>)
    THEN [err |-> WormError("MultiEntry indexes cannot be unique"),
          index |-> Index(<<>>, FALSE, FALSE)]
  ELSE LET unique == textStartsWith(index.text, <<"&">>)
           multiEntry == ~unique /\ textStartsWith(index.text, <<"*">>)
           rest == IF unique \/ multiEntry THEN Tail(index.text) ELSE index.text
       IN IF multiEntry /\ Len(split(rest)) > 1
            THEN [err |-> WormError("MultiEntry indexes can only have one field"),
                  index |-> Index(<<>>, FALSE, FALSE)]
            ELSE [err |-> None, index |-> Index(split(rest), unique, multiEntry)]

\* The table options: abstract written or not, indexes a list of named
\* indexes in the order written (none: no indexes option)
TableOptions(abstract, indexes) == [abstract |-> abstract, indexes |-> indexes]
Named(name, index) == [name |-> name, index |-> index]

\* Object.assign(indexes, parsedIndexes): a name written again is replaced
assignIndexes(indexes, parsed) ==
  {i \in indexes : \A p \in parsed : p.name # i.name} \cup parsed

\* metadata.ts: _overrideTableData, lines 89-113: the name and the abstract
\* flag are assigned before the indexes are parsed; every index is parsed
\* before any is assigned
_overrideTableData(registry, m, tableOptions) ==
  LET h == _handleTableData(registry, m)
      a == [h EXCEPT ![m].tableName = m, ![m].abstract = tableOptions.abstract]
      ix == tableOptions.indexes
      thrown == {i \in 1..Len(ix) : IsErr(_parseIndex(ix[i].index).err)}
      firstThrown == CHOOSE i \in thrown : \A j \in thrown : i <= j
      parsed == {Named(ix[i].name, _parseIndex(ix[i].index).index) : i \in 1..Len(ix)}
  IN IF thrown # {}
       THEN [err |-> _parseIndex(ix[firstThrown].index).err, registry |-> a]
       ELSE [err |-> None,
             registry |-> [a EXCEPT ![m].indexes = assignIndexes(@, parsed)]]

\* fields.ts: defineModel, lines 108-119: Field for every entry of the
\* definition, in its order, then the table options; a throw ends it
RECURSIVE defineFields(_, _, _, _)
defineFields(registry, m, definition, i) ==
  IF i > Len(definition) THEN [err |-> None, registry |-> registry]
  ELSE LET f == Field(registry, m, definition[i].name, definition[i].options) IN
       IF IsErr(f.err) THEN f
       ELSE defineFields(f.registry, m, definition, i + 1)
defineModel(registry, m, definition, options) ==
  LET f == defineFields(registry, m, definition, 1) IN
  IF IsErr(f.err) THEN f ELSE _overrideTableData(f.registry, m, options)

\* ------------------------------------------------------- the stores' indexes

\* The characters of the field names: Array.from of a string
chars(name) ==
  CASE name = "id" -> <<"i", "d">>
    [] name = "name" -> <<"n", "a", "m", "e">>
    [] name = "tags" -> <<"t", "a", "g", "s">>
    [] OTHER -> <<name>>

\* A key path of the engine: a string or an array of strings
KeyPath(isArray, fields) == [isArray |-> isArray, fields |-> fields]
Array_from(path) ==
  IF path.isArray THEN path.fields ELSE chars(path.fields[1])

\* metadata.ts: _compareArrays, lines 256-266, and _compareIndex, lines 240-246
_compareArrays(a, b) ==
  Len(a) = Len(b) /\ \A i \in 1..Len(a) : a[i] = b[i]
_compareIndex(index, field) ==
  /\ index.unique = field.unique
  /\ index.multiEntry = field.multiEntry
  /\ _compareArrays(Array_from(index.keyPath), field.fields)

\* The engine's index, as store.createIndex(name, keyPath, options) makes it
IDBIndex(name, indexDef) ==
  [name |-> name,
   keyPath |-> KeyPath(Len(indexDef.fields) > 1, indexDef.fields),
   unique |-> indexDef.unique, multiEntry |-> indexDef.multiEntry]

\* The engine refuses a multiEntry index over an array key path when
\* createIndex is called, and aborts the upgrade when a unique index is made
\* over rows that share a value of its fields.
InvalidAccessError == Err("DOMException", "InvalidAccessError")
SyntaxError == Err("DOMException", "SyntaxError")
valueAt(row, fields) == [i \in 1..Len(fields) |-> row[fields[i]]]
indexed(rs, fields) ==
  {r \in rs : \A i \in 1..Len(fields) : IsValidKey(r[fields[i]])}
createIndexError(rs, indexDef) ==
  IF indexDef.multiEntry /\ Len(indexDef.fields) > 1 THEN InvalidAccessError
  ELSE IF indexDef.unique
          /\ \E r1 \in indexed(rs, indexDef.fields), r2 \in indexed(rs, indexDef.fields) :
               r1 # r2 /\ valueAt(r1, indexDef.fields) = valueAt(r2, indexDef.fields)
    THEN ConstraintError
  ELSE None

\* metadata.ts: _createIndex, lines 212-232
_createIndex(oldIndexes, store, newIndex, indexDef) ==
  IF /\ newIndex \in oldIndexes
     /\ \E i \in store.indexes : i.name = newIndex /\ _compareIndex(i, indexDef)
    THEN [err |-> None, store |-> store]
    ELSE [err |-> createIndexError(store.rows, indexDef),
          store |-> [store EXCEPT !.indexes =
                       {i \in @ : i.name # newIndex} \cup {IDBIndex(newIndex, indexDef)}]]

\* metadata.ts: getPrimaryKeys, lines 121-133, of a table's fields
primaryKeys(fs) ==
  LET pk == SelectSeq(fs, LAMBDA f : f.options.primaryKey) IN
  [i \in 1..Len(pk) |-> pk[i].name]

\* metadata.ts: createTables, lines 175-181: the indexed fields in the order
\* declared, then the extra indexes not among them
ExtraNames == <<"byTags", "name">>
newIndexes(metadata) ==
  LET flagged == SelectSeq(metadata.fields, LAMBDA f : f.options.index)
      names == [i \in 1..Len(flagged) |-> flagged[i].name]
  IN names \o SelectSeq(ExtraNames, LAMBDA n :
                  /\ \E x \in metadata.indexes : x.name = n
                  /\ \A i \in 1..Len(names) : names[i] # n)

\* metadata.ts: createTables, lines 188-199: the definition of an index
indexDefOf(metadata, newIndex) ==
  IF \E i \in 1..Len(metadata.fields) : metadata.fields[i].name = newIndex
    THEN LET f == CHOOSE f \in {metadata.fields[i] : i \in 1..Len(metadata.fields)} :
                    f.name = newIndex
         IN Index(<<newIndex>>, f.options.unique, FALSE)
    ELSE (CHOOSE x \in metadata.indexes : x.name = newIndex).index

\* metadata.ts: createTables, lines 182-185: the old indexes that are gone
\* (variant: no index is ever deleted)
staleIndexesKept(oldIndexes, news) == {}
staleIndexes(oldIndexes, news) ==
  {o \in oldIndexes : \A i \in 1..Len(news) : news[i] # o}

\* metadata.ts: createTables, lines 187-202: the loop over the new indexes
RECURSIVE createIndexes(_, _, _, _, _)
createIndexes(oldIndexes, store, metadata, news, i) ==
  IF i > Len(news) THEN [err |-> None, store |-> store]
  ELSE LET c == _createIndex(oldIndexes, store, news[i], indexDefOf(metadata, news[i])) IN
       IF IsErr(c.err) THEN c
       ELSE createIndexes(oldIndexes, c.store, metadata, news, i + 1)

\* The engine's store of the table, before it is made
NoStore == [exists |-> FALSE, keyPath |-> <<>>, indexes |-> {}, rows |-> {}]

\* metadata.ts: createTables, lines 142-203, for the table of one class
createTable(metadata, store) ==
  IF ~metadata.defined THEN [err |-> None, store |-> store]
  ELSE IF metadata.abstract = "true" \/ (metadata.abstract = "unset" /\ metadata.hasChild)
    THEN [err |-> None, store |-> store]
  ELSE IF store.exists /\ ~_compareArrays(store.keyPath, primaryKeys(metadata.fields))
    THEN [err |-> ModelError("Table Test has a different primary key than the one in the database."),
          store |-> store]
  ELSE IF ~store.exists /\ primaryKeys(metadata.fields) = <<>>
    THEN [err |-> SyntaxError, store |-> store]
  ELSE LET s == IF store.exists THEN store
                ELSE [NoStore EXCEPT !.exists = TRUE,
                                     !.keyPath = primaryKeys(metadata.fields)]
           oldIndexes == {i.name : i \in s.indexes}
           news == newIndexes(metadata)
           cleared == [s EXCEPT !.indexes =
                         {i \in @ : i.name \notin staleIndexes(oldIndexes, news)}]
       IN createIndexes(oldIndexes, cleared, metadata, news, 1)

\* The classes declared, and the database before it is opened
SchemaModels == {"Test"}
NoStores == [version |-> 0, open |-> FALSE, store |-> NoStore, before |-> {}]

\* ------------------------------------------------------------- migrations
\* types.ts: MigrationList, lines 93-99: a migration callback under each
\* target version.  What a callback does, as far as the upgrade can tell:
\* "plain" awaits nothing the event loop delivers, "request" awaits a request
\* of the upgrade transaction (migration.tx), "timer" awaits something else,
\* "fails" rejects.
MigrationKinds == {"plain", "request", "timer", "fails"}
NoMigration == "none"
MigrationKeys == 1..MaxVersion
MigrationLists == [MigrationKeys -> MigrationKinds \cup {NoMigration}]
MigrationError == Err("Error", "migration")

\* migration.ts: MigrationContext constructor, lines 23-28: the entries of the
\* list, their keys parsed as numbers, sorted by key.  Object.entries lists
\* the keys as decimal strings; parseInt of the decimal string of a version
\* number is that number.
RECURSIVE sort(_)
sort(versions) ==
  IF versions = {} THEN <<>>
  ELSE LET least == CHOOSE v \in versions : \A w \in versions : v <= w
       IN <<least>> \o sort(versions \ {least})
MigrationContext(migrations) ==
  sort({version \in DOMAIN migrations : migrations[version] # NoMigration})

\* migration.ts: runMigrations, lines 41-43: the migrations between the old
\* and the new version
\* (variant: the migration of the old version is run again)
toRunFromOld(version, oldVersion, newVersion) ==
  version >= oldVersion /\ version <= newVersion
toRun(version, oldVersion, newVersion) ==
  version > oldVersion /\ version <= newVersion
runMigrations(items, oldVersion, newVersion) ==
  SelectSeq(items, LAMBDA version : toRun(version, oldVersion, newVersion))

\* The init call that upgrades: its onupgradeneeded handler (pc), the versions
\* of the event, the migrations still to start and the one awaited, the
\* upgrade transaction, whether oncomplete is set, the promise of init, what
\* the handler threw, whether onsuccess has run, and the order of what
\* happened (log).
NoUpgrade ==
  [pc |-> "idle", old |-> 0, new |-> 0,
   migrations |-> [version \in MigrationKeys |-> NoMigration],
   todo |-> <<>>, running |-> 0, tx |-> "none", oncomplete |-> FALSE,
   promise |-> [st |-> "idle", session |-> 0, upgraded |-> FALSE],
   thrown |-> None, succeeded |-> FALSE, base |-> NoStores, log |-> <<>>]
Event(ev, version) == [ev |-> ev, version |-> version]

\* ------------------------------------------------------------------- state
VARIABLES
  db,      \* the global connection record (connection.ts: db)
  idb,     \* the storage engine's database: version, stores, open connections
  inits,   \* the init calls: their open request and their promise
  rows,    \* committed contents of every store: the primary keys present
  tx,      \* the native transaction of the scoped Transaction call
  co,      \* the closure of the Transaction call: callbackDone, the promises
  cb,      \* the transaction callback: where it is
  hist,    \* what happened in the current Transaction call (observations);
           \* base: the stores without the writes of the scoped transaction
  op,      \* the outcome of the operation the last step issued outside the
           \* scoped transaction (NoOp after any other step)
  table,   \* the rows of the queried store
  q,       \* the query the caller is building
  res,     \* what the last step's query call answered (NoResult after any
           \* other step)
  clones,  \* the queries made by clone(): their own filter entries, the
           \* filters object they inherit from
  runs,    \* the cursor loops under way or finished, one per query
  recs,    \* the records of the stores of the models One and Two
  gen,     \* how many times the generator default has been invoked
  ret,     \* what the last create, and the get after it, answered
  meta,    \* the metadata registry of the declared classes (TablesMetadata)
  engine,  \* the engine's store of the declared class: its key path, its
           \* indexes, its rows; the version and whether it is open
  upgrade  \* the init call that upgrades the database: its migrations, where
           \* its onupgradeneeded handler is, the upgrade transaction, its promise

vars == <<db, idb, inits, rows, tx, co, cb, hist, op, table, q, res,
          clones, runs, recs, gen, ret, meta, engine, upgrade>>

Disconnected == [connected |-> FALSE, session |-> 0, name |-> "", version |-> 0]

\* connection.ts: _updateDB
_updateDB(_db, dbName, version) ==
  [connected |-> TRUE, session |-> _db, name |-> dbName, version |-> version]

NoReq == [store |-> "", key |-> 0]
NoTx == [state |-> "none", scope |-> {}, mode |-> "readonly",
         work |-> [s \in StoreNames |-> {}], req |-> NoReq]
NoCo == [callbackDone |-> FALSE, callbackPromise |-> NotCalled,
         transactionPromise |-> NotCalled, race |-> NotCalled, outer |-> NotCalled]
NoCb == [pc |-> "none", steps |-> 0, invoked |-> FALSE]
NoHist == [listed |-> {}, opened |-> FALSE, base |-> [s \in StoreNames |-> {}],
           commitCalled |-> FALSE, abortCalled |-> FALSE,
           signal |-> "none", cbAtSignal |-> "none",
           cbOutcome |-> NotCalled, stateAtSettle |-> "none", sigAtSettle |-> "none",
           wrote |-> {}, resolvedOk |-> {}, resolvedErr |-> {}]
NoOp == [kind |-> "none", model |-> "", result |-> None, keys |-> {}, afterOuter |-> FALSE]

\* the promise init returns: it resolves with an InitResponse
InitPending == [st |-> "pending", session |-> 0, upgraded |-> FALSE]
InitResponse(session, upgraded) ==
  [st |-> "resolved", session |-> session, upgraded |-> upgraded]
InitCallRec == [st |-> "idle", ver |-> 0, session |-> 0, promise |-> InitPending,
                dbAtCall |-> Disconnected, openAtCall |-> {}, concurrent |-> FALSE,
                stale |-> FALSE]

Init ==
  /\ db = Disconnected
  /\ idb = [version |-> 0, stores |-> {}, open |-> {}, next |-> 1, upgrading |-> 0]
  /\ inits = [c \in Callers |-> InitCallRec]
  /\ rows = [s \in StoreNames |-> {}]
  /\ tx = NoTx
  /\ co = NoCo
  /\ cb = NoCb
  /\ hist = NoHist
  /\ op = NoOp
  /\ table = {}
  /\ q = NewQuery
  /\ res = NoResult
  /\ clones = [c \in CloneIds |-> NoClone]
  /\ runs = [r \in Runners |-> NoRun]
  /\ recs = {}
  /\ gen = 0
  /\ ret = NoRet
  /\ meta = [m \in SchemaModels |-> NoMetadata]
  /\ engine = NoStores
  /\ upgrade = NoUpgrade

\* The script runs one task, then its microtasks: while the callback has the
\* control no other task starts.
jsIdle == cb.pc # "run"

\* ============================================================== connection
\* resolve / reject of a promise: only the first call settles it
resolve(p, session, upgraded) ==
  IF p.st = "pending" THEN InitResponse(session, upgraded) ELSE p
reject(p) ==
  IF p.st = "pending" THEN [p EXCEPT !.st = "rejected"] ELSE p

\* The engine handles the open requests of one database in the order made.
Earlier(c) == \A d \in Callers : d < c => inits[d].st = "done"

txLive == tx.state \in {"active", "inactive", "committing"}

\* connection.ts: init, up to the call of indexedDB.open (lines 160-169).
\* The branch for an established connection resolves and falls through.
initConnected(c, ver) ==
  [inits[c] EXCEPT !.st = "queued", !.ver = ver,
                   !.promise = InitResponse(db.session, FALSE)]

initDisconnected(c, ver) ==
  [inits[c] EXCEPT !.st = "queued", !.ver = ver, !.promise = InitPending]

InitCall(c, ver) ==
  /\ jsIdle
  /\ inits[c].st = "idle"
  /\ \A d \in Callers : d < c => inits[d].st # "idle"
  /\ LET r == IF db.connected THEN initConnected(c, ver) ELSE initDisconnected(c, ver)
     IN inits' = [d \in Callers |->
          IF d = c
            THEN [r EXCEPT !.dbAtCall = db, !.openAtCall = idb.open,
                           !.concurrent = \E e \in Callers :
                               e < c /\ inits[e].promise.st = "pending" /\ inits[e].st # "idle"]
            ELSE [inits[d] EXCEPT !.stale = FALSE]]
  /\ op' = NoOp /\ res' = NoResult
  /\ UNCHANGED <<table, q, clones, runs, recs, gen, ret, meta, engine, upgrade>>
  /\ UNCHANGED <<db, idb, rows, tx, co, cb, hist>>

\* connection.ts: request.onupgradeneeded (lines 183-200).  The engine fires
\* it when the requested version is higher than the stored one and every
\* other connection is closed; until then the request is blocked.
OnUpgradeNeeded(c) ==
  /\ jsIdle /\ ~txLive
  /\ inits[c].st = "queued" /\ Earlier(c)
  /\ inits[c].ver > idb.version
  /\ idb.open = {}
  /\ LET s == idb.next IN
       /\ idb' = [version |-> inits[c].ver, stores |-> idb.stores \cup createTables,
                  open |-> {s}, next |-> s + 1, upgrading |-> s]
       /\ db' = _updateDB(s, "test", inits[c].ver)
       /\ inits' = [inits EXCEPT ![c].st = "upgrading", ![c].session = s]
  /\ op' = NoOp /\ res' = NoResult
  /\ UNCHANGED <<table, q, clones, runs, recs, gen, ret, meta, engine, upgrade>>
  /\ UNCHANGED <<rows, tx, co, cb, hist>>

\* The upgrade transaction completes (lines 194-199: resolve with upgraded),
\* then the request succeeds (lines 175-181), or fails when the connection was
\* closed during the upgrade (lines 171-173).
OnUpgradeComplete(c) ==
  /\ jsIdle
  /\ inits[c].st = "upgrading"
  /\ LET s == inits[c].session
         p == resolve(inits[c].promise, s, TRUE) IN
       /\ idb' = [idb EXCEPT !.upgrading = 0]
       /\ IF s \in idb.open
            THEN /\ db' = _updateDB(s, "test", inits[c].ver)
                 /\ inits' = [inits EXCEPT ![c].st = "done",
                                           ![c].promise = resolve(p, s, FALSE)]
            ELSE /\ db' = db
                 /\ inits' = [inits EXCEPT ![c].st = "done", ![c].promise = reject(p)]
  /\ op' = NoOp /\ res' = NoResult
  /\ UNCHANGED <<table, q, clones, runs, recs, gen, ret, meta, engine, upgrade>>
  /\ UNCHANGED <<rows, tx, co, cb, hist>>

\* connection.ts: request.onsuccess (lines 175-181), no upgrade needed.
OnSuccess(c) ==
  /\ jsIdle
  /\ inits[c].st = "queued" /\ Earlier(c)
  /\ inits[c].ver = idb.version
  /\ LET s == idb.next IN
       /\ idb' = [idb EXCEPT !.open = @ \cup {s}, !.next = s + 1]
       /\ db' = _updateDB(s, "test", inits[c].ver)
       /\ inits' = [inits EXCEPT ![c].st = "done", ![c].session = s,
                                 ![c].promise = resolve(@, s, FALSE)]
  /\ op' = NoOp /\ res' = NoResult
  /\ UNCHANGED <<table, q, clones, runs, recs, gen, ret, meta, engine, upgrade>>
  /\ UNCHANGED <<rows, tx, co, cb, hist>>

\* connection.ts: request.onerror (lines 171-173): the requested version is
\* lower than the stored one.
OnError(c) ==
  /\ jsIdle
  /\ inits[c].st = "queued" /\ Earlier(c)
  /\ inits[c].ver < idb.version
  /\ inits' = [inits EXCEPT ![c].st = "done", ![c].promise = reject(@)]
  /\ op' = NoOp /\ res' = NoResult
  /\ UNCHANGED <<table, q, clones, runs, recs, gen, ret, meta, engine, upgrade>>
  /\ UNCHANGED <<db, idb, rows, tx, co, cb, hist>>

\* connection.ts: disconnect (lines 227-237).  stale marks the init calls
\* whose open request is under way when disconnect returns, until the next
\* init call is made (an observation).
disconnect ==
  /\ jsIdle
  /\ db.connected
  /\ idb' = [idb EXCEPT !.open = @ \ {db.session}]
  /\ db' = Disconnected
  /\ inits' = [c \in Callers |->
                 IF inits[c].st \in {"queued", "upgrading"}
                   THEN [inits[c] EXCEPT !.stale = TRUE]
                   ELSE inits[c]]
  /\ op' = NoOp /\ res' = NoResult
  /\ UNCHANGED <<table, q, clones, runs, recs, gen, ret, meta, engine, upgrade>>
  /\ UNCHANGED <<rows, tx, co, cb, hist>>

\* ======================================================== store resolution

\* transaction.ts: _objectStore, lines 35-36: the effective storage name
storeNameOf(storeName) ==
  IF storeName \in DOMAIN TablesMetadata
    THEN TablesMetadata[storeName].tableName
    ELSE storeName

\* IDBTransaction.objectStore(name)
txObjectStore(t, name) ==
  IF t.state \in {"finished", "aborted"} THEN InvalidStateError
  ELSE IF name \notin t.scope THEN NotFoundError
  ELSE Ok

\* IDBDatabase.transaction(stores, mode) on the session of the global record
sessionTransaction(stores) ==
  IF idb.upgrading = db.session \/ db.session \notin idb.open THEN InvalidStateError
  ELSE IF ~(stores \subseteq idb.stores) THEN NotFoundError
  ELSE Ok

\* transaction.ts: _objectStore(storeName, tx), lines 31-42
_objectStore(storeName, t) ==
  IF ~db.connected THEN ConnectionError
  ELSE txObjectStore(t, storeNameOf(storeName))

\* transaction.ts: _objectStore(storeName, mode), lines 31-47
\* (variant: no check of db.connected)
_objectStoreModeUnchecked(storeName) ==
  sessionTransaction({storeNameOf(storeName)})
_objectStoreMode(storeName) ==
  IF ~db.connected THEN ConnectionError
  ELSE sessionTransaction({storeNameOf(storeName)})

\* IDBObjectStore.add on a store of transaction t
storeAdd(t) ==
  IF t.state # "active" THEN TransactionInactiveError
  ELSE IF t.mode = "readonly" THEN ReadOnlyError
  ELSE Ok

\* ============================================================= Transaction
\* transaction.ts: Transaction, line 84: the stores the transaction spans
TransactionStores(models) == {m : m \in models}

\* transaction.ts: Transaction, lines 94-98: the then-handler on the callback
\* IDBTransaction.commit throws unless the transaction is active.
thenHandler(t, x) ==
  IF t.state = "active"
    THEN [tx |-> [t EXCEPT !.state = "committing"], out |-> Resolved(x),
          commit |-> TRUE, abort |-> FALSE]
    ELSE [tx |-> t, out |-> Rejected(InvalidStateError),
          commit |-> TRUE, abort |-> FALSE]

\* transaction.ts: Transaction, lines 99-103: the catch-handler
\* IDBTransaction.abort throws once the transaction is committing or finished;
\* otherwise it discards every write of the transaction.
catchHandler(t, error) ==
  IF t.state \in {"active", "inactive"}
    THEN [tx |-> [t EXCEPT !.state = "aborted", !.req = NoReq], out |-> Rejected(error),
          commit |-> FALSE, abort |-> TRUE]
    ELSE [tx |-> t, out |-> Rejected(InvalidStateError),
          commit |-> FALSE, abort |-> TRUE]

\* transaction.ts: Transaction, lines 93-103: callbackPromise
callbackPromise(t, outcome) ==
  IF outcome.st = "resolved"
    THEN LET th == thenHandler(t, outcome.val) IN
         IF th.out.st = "rejected"
           THEN [catchHandler(th.tx, th.out.val) EXCEPT !.commit = TRUE]
           ELSE th
    ELSE catchHandler(t, outcome.val)

\* transaction.ts: Transaction, lines 105-116: after the race
afterRace(race, callbackDone) ==
  IF race.st = "rejected" THEN Rejected(race.val)
  ELSE IF ~callbackDone THEN Rejected(PendingError)
  ELSE Resolved(race.val)

settleIfPending(p, v) == IF p.st = "pending" THEN v ELSE p

\* The callback's promise settles with outcome: the handlers of lines 94-103
\* run, then the race and the continuation of the outer call.
coAfterCallback(c, cp) ==
  LET race == settleIfPending(c.race, cp.out) IN
  [c EXCEPT !.callbackDone = TRUE,
            !.callbackPromise = cp.out,
            !.race = race,
            !.outer = settleIfPending(c.outer, afterRace(race, TRUE))]

histAfterCallback(h, t, outcome, cp) ==
  [h EXCEPT !.cbOutcome = outcome, !.stateAtSettle = t.state,
            !.sigAtSettle = h.signal,
            !.commitCalled = cp.commit, !.abortCalled = cp.abort]

\* transaction.ts: Transaction, lines 87-90 and 105-116: a completion signal of
\* the transaction settles transactionPromise, then the race and the outer call.
coAfterSignal(c, v) ==
  LET race == settleIfPending(c.race, v) IN
  [c EXCEPT !.transactionPromise = settleIfPending(@, v),
            !.race = race,
            !.outer = settleIfPending(c.outer, afterRace(race, c.callbackDone))]

quiescent ==
  /\ co.outer.st # "pending"
  /\ ~txLive
  /\ cb.pc \in {"none", "done"}

Modes == {"readonly", "readwrite"}

\* transaction.ts: Transaction, lines 77-93
Transaction(mode, models) ==
  /\ jsIdle /\ quiescent
  /\ op' = NoOp /\ res' = NoResult
  /\ UNCHANGED <<table, q, clones, runs, recs, gen, ret, meta, engine, upgrade>>
  /\ rows' = rows /\ db' = db /\ idb' = idb /\ inits' = inits
  /\ LET h == [NoHist EXCEPT !.listed = models, !.base = rows]
         r == sessionTransaction(TransactionStores(models)) IN
     IF ~db.connected
       THEN /\ co' = [NoCo EXCEPT !.outer = Rejected(ConnectionError)]
            /\ tx' = NoTx /\ cb' = NoCb /\ hist' = h
       ELSE IF IsErr(r)
         THEN /\ co' = [NoCo EXCEPT !.outer = Rejected(r)]
              /\ tx' = NoTx /\ cb' = NoCb /\ hist' = h
         ELSE /\ tx' = [state |-> "active", scope |-> TransactionStores(models),
                       mode |-> mode, work |-> rows, req |-> NoReq]
              /\ co' = [callbackDone |-> FALSE, callbackPromise |-> Pending,
                       transactionPromise |-> Pending, race |-> Pending,
                       outer |-> Pending]
              /\ cb' = [pc |-> "run", steps |-> 0, invoked |-> TRUE]
              /\ hist' = [h EXCEPT !.opened = TRUE]

\* ------------------------------------------------- the transaction callback
\* The callback is the caller's code.  It is a sequence of awaited
\* Model.create(..., tx) calls and awaited timers, ended by a return or a throw;
\* it lets the failure of an operation it awaits propagate.
CallbackSettles(t, c, h, outcome) ==
  LET cp == callbackPromise(t, outcome) IN
  /\ tx' = cp.tx
  /\ co' = coAfterCallback(c, cp)
  /\ hist' = histAfterCallback(h, t, outcome, cp)
  /\ cb' = [cb EXCEPT !.pc = "done"]

\* models.ts: Model.create(values, tx), lines 82-93, called in the callback
CbCreate(m, k) ==
  /\ cb.pc = "run" /\ cb.steps < MaxCbSteps
  /\ LET r == _objectStore(m, tx)
         a == IF IsErr(r) THEN r ELSE storeAdd(tx)
         h == IF IsErr(r) THEN [hist EXCEPT !.resolvedErr = @ \cup {m}]
                          ELSE [hist EXCEPT !.resolvedOk = @ \cup {m}]
     IN IF IsErr(a)
          THEN CallbackSettles(tx, co, h, Rejected(a))
          ELSE /\ tx' = [tx EXCEPT !.req = [store |-> storeNameOf(m), key |-> k]]
               /\ cb' = [cb EXCEPT !.pc = "awaitReq", !.steps = @ + 1]
               /\ hist' = h
               /\ co' = co
  /\ op' = NoOp /\ res' = NoResult
  /\ UNCHANGED <<table, q, clones, runs, recs, gen, ret, meta, engine, upgrade>>
  /\ UNCHANGED <<db, idb, inits, rows>>

\* The callback awaits something that is not an operation of the transaction
\* (a timer): the task ends with no request placed.
CbWait ==
  /\ cb.pc = "run" /\ cb.steps < MaxCbSteps
  /\ cb' = [cb EXCEPT !.pc = "awaitTimer", !.steps = @ + 1]
  /\ tx' = [tx EXCEPT !.state = IF @ = "active" THEN "inactive" ELSE @]
  /\ op' = NoOp /\ res' = NoResult
  /\ UNCHANGED <<table, q, clones, runs, recs, gen, ret, meta, engine, upgrade>>
  /\ UNCHANGED <<db, idb, inits, rows, co, hist>>

CbResolve ==
  /\ cb.pc = "run"
  /\ CallbackSettles(tx, co, hist, Resolved(Value("v")))
  /\ op' = NoOp /\ res' = NoResult
  /\ UNCHANGED <<table, q, clones, runs, recs, gen, ret, meta, engine, upgrade>>
  /\ UNCHANGED <<db, idb, inits, rows>>

CbThrow ==
  /\ cb.pc = "run"
  /\ CallbackSettles(tx, co, hist, Rejected(Rollback))
  /\ op' = NoOp /\ res' = NoResult
  /\ UNCHANGED <<table, q, clones, runs, recs, gen, ret, meta, engine, upgrade>>
  /\ UNCHANGED <<db, idb, inits, rows>>

TimerFires ==
  /\ cb.pc = "awaitTimer"
  /\ cb' = [cb EXCEPT !.pc = "run"]
  /\ op' = NoOp /\ res' = NoResult
  /\ UNCHANGED <<table, q, clones, runs, recs, gen, ret, meta, engine, upgrade>>
  /\ UNCHANGED <<db, idb, inits, rows, tx, co, hist>>

\* ------------------------------------------- the engine's transaction events
\* models.ts: request.onsuccess (lines 90-92): the row is added, the callback
\* goes on while the transaction is active.
RequestSuccess ==
  /\ cb.pc = "awaitReq" /\ tx.state = "active"
  /\ tx.req.key \notin tx.work[tx.req.store]
  /\ tx' = [tx EXCEPT !.work[tx.req.store] = @ \cup {tx.req.key}, !.req = NoReq]
  /\ hist' = [hist EXCEPT !.wrote = @ \cup {<<tx.req.store, tx.req.key>>}]
  /\ cb' = [cb EXCEPT !.pc = "run"]
  /\ op' = NoOp /\ res' = NoResult
  /\ UNCHANGED <<table, q, clones, runs, recs, gen, ret, meta, engine, upgrade>>
  /\ UNCHANGED <<db, idb, inits, rows, co>>

\* The add fails: the key is present.  The error event goes to request.onerror
\* (models.ts lines 87-89), then to transaction.onerror (transaction.ts line
\* 89); not being cancelled, it aborts the transaction.  A host that runs the
\* microtasks after each listener resumes the callback before
\* transaction.onerror ("listener"); one that dispatches the event in one
\* piece resumes it after the abort ("dispatch").
RequestError(order) ==
  /\ cb.pc = "awaitReq" /\ tx.state = "active"
  /\ tx.req.key \in tx.work[tx.req.store]
  /\ cb' = [cb EXCEPT !.pc = "done"]
  /\ IF order = "listener"
       THEN LET t0 == [tx EXCEPT !.req = NoReq]
                cp == callbackPromise(t0, Rejected(ConstraintError))
                c1 == coAfterCallback(co, cp)
                h1 == histAfterCallback(hist, t0, Rejected(ConstraintError), cp) IN
            /\ co' = coAfterSignal(c1, Rejected(NullError))
            /\ hist' = [h1 EXCEPT !.signal = "error", !.cbAtSignal = "settled"]
            /\ tx' = [cp.tx EXCEPT !.state = "aborted"]
       ELSE LET c1 == coAfterSignal(co, Rejected(NullError))
                h1 == [hist EXCEPT !.signal = "error", !.cbAtSignal = "pending"]
                t1 == [tx EXCEPT !.state = "aborted", !.req = NoReq]
                cp == callbackPromise(t1, Rejected(ConstraintError)) IN
            /\ co' = coAfterCallback(c1, cp)
            /\ hist' = histAfterCallback(h1, t1, Rejected(ConstraintError), cp)
            /\ tx' = cp.tx
  /\ op' = NoOp /\ res' = NoResult
  /\ UNCHANGED <<table, q, clones, runs, recs, gen, ret, meta, engine, upgrade>>
  /\ UNCHANGED <<db, idb, inits, rows>>

\* The callback calls Model.create(values, tx) (models.ts lines 82-93) and
\* returns without awaiting it: the add is placed, the then-handler commits
\* (transaction.ts lines 94-98) while the request is under way, and the outer
\* call takes the outcome of the callback.  A create that throws rejects a
\* promise the callback does not hold.
CbCreateUnawaited(m, k) ==
  /\ cb.pc = "run" /\ cb.steps < MaxCbSteps
  /\ LET r == _objectStore(m, tx)
         a == IF IsErr(r) THEN r ELSE storeAdd(tx)
         h == IF IsErr(r) THEN [hist EXCEPT !.resolvedErr = @ \cup {m}]
                          ELSE [hist EXCEPT !.resolvedOk = @ \cup {m}]
         t == IF IsErr(a) THEN tx
              ELSE [tx EXCEPT !.req = [store |-> storeNameOf(m), key |-> k]]
     IN CallbackSettles(t, co, h, Resolved(Value("v")))
  /\ op' = NoOp /\ res' = NoResult
  /\ UNCHANGED <<table, q, clones, runs, recs, gen, ret, meta, engine, upgrade>>
  /\ UNCHANGED <<db, idb, inits, rows>>

\* The request placed before commit() succeeds: models.ts request.onsuccess
\* (lines 90-92) resolves the promise of create, which nobody awaits.
UnawaitedSuccess ==
  /\ cb.pc = "done" /\ tx.state = "committing" /\ tx.req # NoReq
  /\ tx.req.key \notin tx.work[tx.req.store]
  /\ tx' = [tx EXCEPT !.work[tx.req.store] = @ \cup {tx.req.key}, !.req = NoReq]
  /\ hist' = [hist EXCEPT !.wrote = @ \cup {<<tx.req.store, tx.req.key>>}]
  /\ op' = NoOp /\ res' = NoResult
  /\ UNCHANGED <<table, q, clones, runs, recs, gen, ret, meta, engine, upgrade>>
  /\ UNCHANGED <<db, idb, inits, rows, co, cb>>

\* The request placed before commit() fails, the key being present: the
\* engine aborts the committing transaction and discards its writes.  Whether
\* an error event reaches transaction.onerror (transaction.ts line 89) on the
\* way is the engine's choice; the race is over by then.
UnawaitedError(bubbles) ==
  /\ cb.pc = "done" /\ tx.state = "committing" /\ tx.req # NoReq
  /\ tx.req.key \in tx.work[tx.req.store]
  /\ tx' = [tx EXCEPT !.state = "aborted", !.req = NoReq]
  /\ co' = IF bubbles THEN coAfterSignal(co, Rejected(ConstraintError)) ELSE co
  /\ hist' = [hist EXCEPT !.signal = "abort"]
  /\ op' = NoOp /\ res' = NoResult
  /\ UNCHANGED <<table, q, clones, runs, recs, gen, ret, meta, engine, upgrade>>
  /\ UNCHANGED <<db, idb, inits, rows, cb>>

\* With no request placed and the script back in the event loop, the engine
\* starts to commit the transaction by itself.
AutoCommit ==
  /\ jsIdle /\ tx.state = "inactive"
  /\ tx' = [tx EXCEPT !.state = "committing"]
  /\ op' = NoOp /\ res' = NoResult
  /\ UNCHANGED <<table, q, clones, runs, recs, gen, ret, meta, engine, upgrade>>
  /\ UNCHANGED <<db, idb, inits, rows, co, cb, hist>>

\* The commit is done: the writes are in the stores, the complete event fires
\* (transaction.ts line 88).
\* (variant: the commit loses the writes)
commitRowsLosesWrites(t) == rows
commitRows(t) ==
  [s \in StoreNames |->
     IF s \in t.scope /\ t.mode = "readwrite" THEN t.work[s] ELSE rows[s]]

TransactionComplete ==
  /\ jsIdle /\ tx.state = "committing" /\ tx.req = NoReq
  /\ tx' = [tx EXCEPT !.state = "finished"]
  /\ rows' = commitRows(tx)
  /\ co' = coAfterSignal(co, Resolved(Undefined))
  /\ hist' = [hist EXCEPT !.signal = "complete",
                          !.cbAtSignal = IF co.callbackPromise.st = "pending"
                                           THEN "pending" ELSE "settled"]
  /\ op' = NoOp /\ res' = NoResult
  /\ UNCHANGED <<table, q, clones, runs, recs, gen, ret, meta, engine, upgrade>>
  /\ UNCHANGED <<db, idb, inits, cb>>

\* ------------------------------------ operations outside the scoped transaction
\* The engine starts a transaction only when no live transaction with an
\* overlapping scope excludes it.
Conflicts(store, mode) ==
  /\ txLive /\ store \in tx.scope
  /\ (tx.mode = "readwrite" \/ mode = "readwrite")

OpRec(kind, m, result, ks) ==
  [kind |-> kind, model |-> m, result |-> result, keys |-> ks,
   afterOuter |-> co.outer.st = "resolved"]

\* models.ts: Model.all(), lines 125-127, with no transaction given
ModelAll(m) ==
  /\ jsIdle
  /\ LET r == _objectStoreMode(m) IN
     IF IsErr(r)
       THEN op' = OpRec("all", m, r, {})
       ELSE /\ ~Conflicts(storeNameOf(m), "readonly")
            /\ op' = OpRec("all", m, Ok, rows[storeNameOf(m)])
  /\ res' = NoResult
  /\ UNCHANGED <<db, idb, inits, rows, tx, co, cb, hist, table, q, clones, runs, recs, gen, ret, meta, engine, upgrade>>

\* models.ts: Model.create(values), lines 82-93, with no transaction given
ModelCreate(m, k) ==
  /\ jsIdle
  /\ LET r == _objectStoreMode(m)
         s == storeNameOf(m) IN
     IF IsErr(r)
       THEN op' = OpRec("create", m, r, {}) /\ rows' = rows
       ELSE /\ ~Conflicts(s, "readwrite")
            /\ IF k \in rows[s]
                 THEN op' = OpRec("create", m, ConstraintError, {}) /\ rows' = rows
                 ELSE op' = OpRec("create", m, Ok, {k})
                      /\ rows' = [rows EXCEPT ![s] = @ \cup {k}]
  /\ hist' = [hist EXCEPT !.base =
                [t \in StoreNames |-> hist.base[t] \cup (rows'[t] \ rows[t])]]
  /\ res' = NoResult
  /\ UNCHANGED <<db, idb, inits, tx, co, cb, table, q, clones, runs, recs, gen, ret, meta, engine, upgrade>>

\* ------------------------------------------------------------ query actions
\* The steps below are the caller's calls on the model Test {id, a, b} and on
\* the query it builds; they leave the connection and the scoped transaction
\* alone.
queryOnly ==
  /\ jsIdle
  /\ op' = NoOp
  /\ UNCHANGED <<db, idb, inits, rows, tx, co, cb, hist>>
  /\ UNCHANGED <<clones, runs, recs, gen, ret, meta, engine, upgrade>>

\* models.ts: Model.create({id, a: v, b: v}), lines 56-94: a and b are
\* nullable and have no default, so what the caller gave is what is stored.
\* The caller gives both fields the same value: b is the copy of a that has
\* no index.
QCreate(id, v) ==
  /\ queryOnly
  /\ IF \E r \in table : r.id = id
       THEN table' = table /\ res' = Result("create", ConstraintError, <<>>)
       ELSE /\ table' = table \cup {[id |-> id, a |-> v, b |-> v]}
            /\ res' = Result("create", None, <<>>)
  /\ UNCHANGED q

\* query.ts: Query.filter({key: value}), lines 164-167
QFilter(key, value) ==
  /\ queryOnly
  /\ Len(filter(q, key, value).filters) <= MaxFilters
  /\ q' = filter(q, key, value)
  /\ q' # q
  /\ res' = NoResult
  /\ UNCHANGED table

\* query.ts: Query.resetFilters(), lines 180-183
QResetFilters ==
  /\ queryOnly
  /\ q.filters # <<>>
  /\ q' = resetFilters(q)
  /\ res' = NoResult
  /\ UNCHANGED table

\* query.ts: Query.orderBy(field), lines 201-217
QOrderBy(field) ==
  /\ queryOnly
  /\ LET r == orderBy(q, field) IN
       /\ q' = r.q
       /\ res' = Result("orderBy", r.err, <<>>)
  /\ UNCHANGED table

\* query.ts: Query.withIndex(index), lines 278-292
QWithIndex(index) ==
  /\ queryOnly
  /\ LET r == withIndex(q, index, NoFilter) IN
       /\ q' = r.q
       /\ res' = Result("withIndex", r.err, <<>>)
  /\ UNCHANGED table

\* query.ts: Query.resetIndex(), lines 294-298
QResetIndex ==
  /\ queryOnly
  /\ q._index # ""
  /\ q' = resetIndex(q)
  /\ res' = NoResult
  /\ UNCHANGED table

\* query.ts: Query.reverse(), lines 231-234
QReverse ==
  /\ queryOnly
  /\ q' = reverse(q)
  /\ res' = NoResult
  /\ UNCHANGED table

\* query.ts: Query.limit(n), lines 248-251
QLimit(n) ==
  /\ queryOnly
  /\ q' = limit(q, n)
  /\ q' # q
  /\ res' = NoResult
  /\ UNCHANGED table

\* query.ts: Query.offset(k), lines 265-268
QOffset(k) ==
  /\ queryOnly
  /\ q' = offset(q, k)
  /\ q' # q
  /\ res' = NoResult
  /\ UNCHANGED table

\* query.ts: Query.all(), lines 486-497
QAll ==
  /\ queryOnly
  /\ res' = all(q, table)
  /\ UNCHANGED <<table, q, clones, runs, recs, gen, ret, meta, engine, upgrade>>

\* query.ts: Query.first(), lines 463-474
QFirst ==
  /\ queryOnly
  /\ res' = first(q, table)
  /\ UNCHANGED <<table, q>>

\* query.ts: Query.delete(), lines 530-540, awaited
QDelete ==
  /\ queryOnly
  /\ res' = delete(q, table).res
  /\ table' = delete(q, table).table
  /\ UNCHANGED q

\* query.ts: Query.update(updates), lines 553-564, awaited
QUpdate(updates) ==
  /\ queryOnly
  /\ res' = update(q, table, updates).res
  /\ table' = update(q, table, updates).table
  /\ UNCHANGED q

\* The store of Test as the engine holds it: each row under its key
testStore == {[model |-> "Test", key |-> <<r.id>>, value |-> r] : r \in table}

\* models.ts: Model.get(k), lines 101-119, on the model of the queries
QGet(k) ==
  /\ jsIdle
  /\ op' = NoOp
  /\ res' = NoResult
  /\ ret' = [NoRet EXCEPT !.kind = "get", !.model = "Test", !.key = Single(k),
                          !.got = get(testStore, "Test", Single(k))]
  /\ UNCHANGED <<db, idb, inits, rows, tx, co, cb, hist, table, q, clones, runs,
                 recs, gen, meta, engine, upgrade>>

\* ------------------------------------------------------------ cursor loops
\* The query object a cursor loop reads: the fields of the query, and for its
\* filters what Object.entries lists of the filters object.
protoEntries(r) == IF r \in CloneIds /\ clones[r].proto = "q" THEN q.filters ELSE <<>>
ownQuery(r) == IF r = "q" THEN q ELSE clones[r].q
thisOf(r) == [ownQuery(r) EXCEPT !.filters = entries(@, protoEntries(r))]

cursorOnly ==
  /\ jsIdle
  /\ op' = NoOp
  /\ res' = NoResult
  /\ UNCHANGED <<db, idb, inits, rows, tx, co, cb, hist, table, q, recs, gen, ret, meta, engine, upgrade>>

\* query.ts: Query._cursorLogic, lines 410-413, called by all (mode readonly)
\* or forEach: the executor of the promise opens the cursor; what _getCursor
\* throws rejects the promise.
runStart(r, kind, mode) ==
  /\ cursorOnly
  /\ runs[r].st = "idle"
  /\ r \in CloneIds => clones[r].made
  /\ LET c == _getCursor(thisOf(r), table) IN
       runs' = [runs EXCEPT ![r] =
                  IF IsErr(c.err)
                    THEN [NoRun EXCEPT !.st = "settled", !.kind = kind,
                                       !.promise = Rejected(c.err)]
                    ELSE [NoRun EXCEPT !.st = "open", !.kind = kind,
                                       !.tx = [mode |-> mode, store |-> "Test"],
                                       !.seq = c.seq, !.i = 1, !.promise = Pending]]
  /\ UNCHANGED clones

\* query.ts: Query.forEach(callback, mode), lines 592-601
QForEach(mode) == runStart("q", "forEach", mode)

\* query.ts: Query.all(), lines 486-497, of the query or of a clone
RunAll(r) == runStart(r, "all", "readonly")

\* query.ts: Query._cursorLogic, lines 415-447: request.onsuccess fires, the
\* cursor on its i-th row or past the last one; answer is what the callback of
\* forEach does if it is called.  The handler is an async function: an error
\* raised in it after its first await rejects the promise the handler returned,
\* which nobody holds, and neither resolve nor reject nor continue is called.
\* When the callback has waited for something else than a request of the
\* transaction, the transaction has finished by the time the handler goes on
\* and continue() throws.
RunStep(r, answer) ==
  /\ cursorOnly
  /\ runs[r].st = "open"
  /\ LET me == runs[r]
         this == thisOf(r)
     IN IF me.i > Len(me.seq)
          THEN runs' = [runs EXCEPT ![r] = [me EXCEPT !.st = "settled",
                                                      !.promise = Resolved(Undefined)]]
          ELSE
            LET row == me.seq[me.i]
                called == Len(onsuccess(this, me.cs, row, FALSE).out) > Len(me.cs.out)
                v == valueCallback(row, me.tx, answer)
                outcome == IF me.kind = "forEach" /\ called THEN v.outcome ELSE "falsy"
                st == onsuccess(this, me.cs, row, outcome = "truthy")
                calls == IF me.kind = "forEach" /\ called
                           THEN Append(me.calls, v.call) ELSE me.calls
            IN runs' = [runs EXCEPT ![r] =
                 CASE outcome = "rejected" ->
                        [me EXCEPT !.st = "lost", !.calls = calls,
                                   !.cs.out = Append(@, row),
                                   !.failure = CallbackError]
                   [] outcome = "late" ->
                        [me EXCEPT !.st = "lost", !.calls = calls, !.cs = st,
                                   !.failure = TransactionInactiveError]
                   [] OTHER ->
                        IF st.done
                          THEN [me EXCEPT !.st = "settled", !.calls = calls, !.cs = st,
                                          !.promise = Resolved(Undefined)]
                          ELSE [me EXCEPT !.i = @ + 1, !.calls = calls, !.cs = st]]
  /\ UNCHANGED clones

\* The caller, resumed by the promise it awaited, has taken the outcome.
RunCollect(r) ==
  /\ cursorOnly
  /\ runs[r].st = "settled"
  /\ runs' = [runs EXCEPT ![r] = NoRun]
  /\ UNCHANGED clones

\* query.ts: Query.clone(), lines 618-623, of the query the caller builds
QClone(c) ==
  /\ cursorOnly
  /\ ~clones[c].made
  /\ clones' = [clones EXCEPT ![c] = clone("q", q.filters)]
  /\ UNCHANGED runs

\* query.ts: Query.filter({key: value}), lines 164-167, on a clone:
\* Object.assign sets own entries of the clone's filters object.
CloneFilter(c, key, value) ==
  /\ cursorOnly
  /\ clones[c].made
  /\ runs[c].st = "idle"
  /\ clones' = [clones EXCEPT ![c].q = filter(@, key, value)]
  /\ clones' # clones
  /\ UNCHANGED runs

\* ---------------------------------------------------------- specification
\* The state once `await init('test', 1)` of the first caller has resolved on a
\* fresh database: the state SpecConn is in after InitCall(1, 1),
\* OnUpgradeNeeded(1) and OnUpgradeComplete(1).
InitConnected ==
  /\ db = _updateDB(1, "test", 1)
  /\ idb = [version |-> 1, stores |-> createTables, open |-> {1}, next |-> 2,
            upgrading |-> 0]
  /\ inits = [c \in Callers |->
               IF c = 1
                 THEN [InitCallRec EXCEPT !.st = "done", !.ver = 1, !.session = 1,
                                          !.promise = InitResponse(1, TRUE)]
                 ELSE InitCallRec]
  /\ rows = [s \in StoreNames |-> {}]
  /\ tx = NoTx
  /\ co = NoCo
  /\ cb = NoCb
  /\ hist = NoHist
  /\ op = NoOp
  /\ table = {}
  /\ q = NewQuery
  /\ res = NoResult
  /\ clones = [c \in CloneIds |-> NoClone]
  /\ runs = [r \in Runners |-> NoRun]
  /\ recs = {}
  /\ gen = 0
  /\ ret = NoRet
  /\ meta = [m \in SchemaModels |-> NoMetadata]
  /\ engine = NoStores
  /\ upgrade = NoUpgrade

\* Spec: the scoped transaction and the operations around it, on an
\* established connection; between two Transaction calls the caller makes
\* builder calls on a query.
IdleOrderBy(field) == quiescent /\ QOrderBy(field)
IdleWithIndex(index) == quiescent /\ QWithIndex(index)
IdleResetIndex == quiescent /\ QResetIndex

Next ==
  \/ \E mode \in Modes, models \in (SUBSET Models) \ {{}} : Transaction(mode, models)
  \/ \E m \in Models, k \in Keys : CbCreate(m, k)
  \/ CbWait
  \/ CbResolve
  \/ CbThrow
  \/ TimerFires
  \/ RequestSuccess
  \/ \E order \in {"listener", "dispatch"} : RequestError(order)
  \/ AutoCommit
  \/ TransactionComplete
  \/ \E m \in Models : ModelAll(m)
  \/ \E m \in Models, k \in Keys : ModelCreate(m, k)
  \/ \E field \in {<<"a">>, <<"-", "a">>} : IdleOrderBy(field)
  \/ IdleWithIndex("a")
  \/ IdleResetIndex

Spec == InitConnected /\ [][Next]_vars

\* The order and the index: the caller fills the store, orders the query, puts
\* it on an index, takes it off the index, and runs it.
NextBuild ==
  \/ \E id \in 1..MaxId, v \in 0..MaxVal : QCreate(id, v)
  \/ \E field \in {<<"a">>, <<"-", "a">>} : QOrderBy(field)
  \/ QWithIndex("a")
  \/ QResetIndex
  \/ QAll

SpecBuild == InitConnected /\ [][NextBuild]_vars

\* The queries: the caller fills the store, builds a query and runs it.
NextQuery ==
  \/ \E id \in 1..MaxId, v \in FieldVals : QCreate(id, v)
  \/ \E key \in {"a", "b"}, value \in FilterVals : QFilter(key, value)
  \/ QResetFilters
  \/ QAll

SpecQuery == InitConnected /\ [][NextQuery]_vars

\* The queries with one Between filter: the caller fills the store, filters
\* a query that has no filter yet by a range, and runs it.
BetweenVals == {f \in FilterVals : f.type = "between"}

FirstFilter(key, value) == q.filters = <<>> /\ QFilter(key, value)

NextBetween ==
  \/ \E id \in 1..MaxId, v \in FieldVals : QCreate(id, v)
  \/ \E key \in {"a", "b"}, value \in BetweenVals : FirstFilter(key, value)
  \/ QResetFilters
  \/ QAll

SpecBetween == InitConnected /\ [][NextBetween]_vars

\* Ordering and pagination: the caller fills the store (with numbers and with
\* null, which no index holds), filters on the field without index, orders,
\* limits, skips and runs the query.
NextPage ==
  \/ \E id \in 1..MaxId, v \in {NullV} \cup (0..MaxVal) : QCreate(id, v)
  \/ QFilter("b", Function("truthy"))
  \/ \E field \in {<<"a">>, <<"-", "a">>, <<"b">>} : QOrderBy(field)
  \/ QReverse
  \/ \E n \in 0..MaxLimit : QLimit(n)
  \/ \E k \in 0..MaxLimit : QOffset(k)
  \/ QAll

SpecPage == InitConnected /\ [][NextPage]_vars

\* SpecEach: the caller fills the store, builds a query, and runs forEach on
\* it; a call of the caller waits for the one before it, so the store and the
\* query change only while no cursor loop of the caller is under way.
callerFree == \A r \in Runners : runs[r].st = "idle"

EachCreate(id, v) == callerFree /\ QCreate(id, v)
EachFilter(key, value) == callerFree /\ QFilter(key, value)
EachLimit(n) == callerFree /\ QLimit(n)
EachOffset(k) == callerFree /\ QOffset(k)

NextEach ==
  \/ \E id \in 1..MaxId, v \in 0..MaxVal : EachCreate(id, v)
  \/ EachFilter("b", Function("truthy"))
  \/ EachLimit(1)
  \/ EachOffset(1)
  \/ \E mode \in Modes : QForEach(mode)
  \/ \E answer \in Answers : RunStep("q", answer)
  \/ RunCollect("q")

SpecEach == InitConnected /\ [][NextEach]_vars

\* SpecClone: the store holds two rows; the caller filters the query on the
\* field without index, clones it, filters the clones, and runs all() on the
\* query and on the clones, one call not waiting for another.
TestRows == {[id |-> 1, a |-> 0, b |-> 0], [id |-> 2, a |-> 1, b |-> 1]}
TestVals == {0, 1}

InitFilled ==
  /\ db = _updateDB(1, "test", 1)
  /\ idb = [version |-> 1, stores |-> createTables, open |-> {1}, next |-> 2,
            upgrading |-> 0]
  /\ inits = [c \in Callers |->
               IF c = 1
                 THEN [InitCallRec EXCEPT !.st = "done", !.ver = 1, !.session = 1,
                                          !.promise = InitResponse(1, TRUE)]
                 ELSE InitCallRec]
  /\ rows = [s \in StoreNames |-> {}]
  /\ tx = NoTx
  /\ co = NoCo
  /\ cb = NoCb
  /\ hist = NoHist
  /\ op = NoOp
  /\ table = TestRows
  /\ q = NewQuery
  /\ res = NoResult
  /\ clones = [c \in CloneIds |-> NoClone]
  /\ runs = [r \in Runners |-> NoRun]
  /\ recs = {}
  /\ gen = 0
  /\ ret = NoRet
  /\ meta = [m \in SchemaModels |-> NoMetadata]
  /\ engine = NoStores
  /\ upgrade = NoUpgrade

OrigFilter(key, value) == runs["q"].st = "idle" /\ QFilter(key, value)

NextClone ==
  \/ \E v \in TestVals : OrigFilter("b", Literal(v))
  \/ \E c \in CloneIds : QClone(c)
  \/ \E c \in CloneIds, v \in TestVals : CloneFilter(c, "b", Literal(v))
  \/ \E r \in Runners : RunAll(r)
  \/ \E r \in Runners : RunStep(r, "undefined")

SpecClone == InitFilled /\ [][NextClone]_vars

\* SpecModel: the caller creates records of One and Two and reads back the
\* record it has just created.
\* What the caller gives to create: a primary key or none, a value, null or
\* nothing for the field with the static default, a value or nothing for the
\* field with the generator default, nothing for the nullable field.
ItemValues(m) ==
  IF m = "One"
    THEN {[Blank EXCEPT !["id"] = id, !["s"] = sv] :
            id \in {UndefinedV} \cup Keys, sv \in {UndefinedV, NullV, 0}}
    ELSE {[Blank EXCEPT !["id"] = id, !["g"] = gv, !["id2"] = id2] :
            id \in {UndefinedV} \cup (1..MaxId), gv \in {UndefinedV, 0},
            id2 \in {UndefinedV} \cup Keys}

modelOnly ==
  /\ jsIdle
  /\ db.connected
  /\ op' = NoOp
  /\ res' = NoResult
  /\ UNCHANGED <<db, idb, inits, rows, tx, co, cb, hist, table, q, clones, runs,
                 meta, engine, upgrade>>

\* models.ts: Model.create(values), lines 56-94, awaited
MCreate(m, values) ==
  /\ modelOnly
  /\ Cardinality(recs) < MaxRecs
  /\ gen < MaxGen
  /\ LET r == create(recs, gen, m, values) IN
       /\ recs' = r.stored
       /\ gen' = r.gen
       /\ ret' = [NoRet EXCEPT !.kind = "create", !.model = m, !.values = values,
                               !.err = r.err, !.created = r.instance,
                               !.genBefore = gen]

\* models.ts: Model.get(key), lines 101-119, awaited, on the model of the
\* instance create has just answered: get(instance.keys) or get(instance.id)
MGet(byKeys) ==
  /\ modelOnly
  /\ ret.kind \in {"create", "update", "save"}
  /\ ret.err = None
  /\ LET key == IF byKeys THEN Array(keys(ret.created))
                ELSE Single(ret.created.fields["id"])
     IN ret' = [ret EXCEPT !.kind = "get", !.key = key,
                           !.got = get(recs, ret.model, key)]
  /\ UNCHANGED <<recs, gen>>

NextModel ==
  \/ \E m \in ItemModels : \E values \in ItemValues(m) : MCreate(m, values)
  \/ \E byKeys \in BOOLEAN : MGet(byKeys)

SpecModel == InitConnected /\ [][NextModel]_vars

\* ------------------------------------------------------ declaring and opening
schemaOnly ==
  /\ jsIdle
  /\ op' = NoOp
  /\ res' = NoResult
  /\ UNCHANGED <<db, idb, inits, rows, tx, co, cb, hist, table, q, clones, runs,
                 recs, gen, upgrade>>

Declared(kind, r) ==
  /\ meta' = r.registry
  /\ ret' = [NoRet EXCEPT !.kind = kind, !.model = "Test", !.err = r.err]
  /\ UNCHANGED engine

\* fields.ts: the Field decorator on a property of the class, lines 53-86
DeclareField(propertyName, options) ==
  /\ schemaOnly
  /\ Declared("Field", Field(meta, "Test", propertyName, options))

\* fields.ts: the Table decorator on the class, lines 159-163
DeclareTable(options) ==
  /\ schemaOnly
  /\ Declared("Table", _overrideTableData(meta, "Test", options))

\* fields.ts: defineModel(modelClass, definition, options), lines 108-119
DefineModel(definition, options) ==
  /\ schemaOnly
  /\ Declared("defineModel", defineModel(meta, "Test", definition, options))

\* The page is loaded again: disconnect() (connection.ts lines 227-237) and
\* _resetMetadata() (metadata.ts lines 42-44)
Reload ==
  /\ schemaOnly
  /\ meta' = [m \in SchemaModels |-> NoMetadata]
  /\ engine' = [engine EXCEPT !.open = FALSE]
  /\ ret' = [NoRet EXCEPT !.kind = "reload"]

\* connection.ts: init(name, version) at a higher version with no migration,
\* awaited, and its events delivered: the upgrade runs createTables.  What
\* createTables throws is lost with the promise of the async handler (err
\* keeps it): the upgrade commits what was done and init resolves.  A unique
\* index over rows that share the value aborts the upgrade, which leaves the
\* database as it was, and init rejects.
InitUpgrade(version) ==
  /\ schemaOnly
  /\ ~engine.open
  /\ version > engine.version
  /\ LET c == createTable(meta["Test"], engine.store) IN
       /\ engine' = IF c.err = ConstraintError THEN engine
                    ELSE [version |-> version, open |-> TRUE, store |-> c.store,
                          before |-> engine.store.indexes]
       /\ ret' = [NoRet EXCEPT !.kind = "init", !.model = "Test", !.err = c.err]
  /\ UNCHANGED meta

\* Model.create on the class, awaited: the engine adds the row unless its key
\* is taken or a unique index holds its value.
TestRow(id, name) == [id |-> id, name |-> name, tags |-> UndefinedV]
StoreAdd(id, name) ==
  /\ schemaOnly
  /\ engine.open /\ engine.store.exists /\ engine.store.keyPath = <<"id">>
  /\ \A r \in engine.store.rows : r.id # id
  /\ \A i \in engine.store.indexes :
       i.unique => createIndexError(engine.store.rows \cup {TestRow(id, name)},
                                    Index(i.keyPath.fields, TRUE, FALSE)) = None
  /\ engine' = [engine EXCEPT !.store.rows = @ \cup {TestRow(id, name)}]
  /\ ret' = NoRet
  /\ UNCHANGED meta

\* ------------------------------------------------------- the upgrade of init
\* connection.ts: request.onupgradeneeded, lines 192-199, from where the
\* handler is to where it waits or ends: runMigrations (migration.ts line 44)
\* starts the next migration and awaits it; after the last one createTables()
\* runs and oncomplete is set.  The handler is an async function: what a
\* migration or createTables throws rejects the promise the handler returned,
\* which nobody holds; the engine sees no error.  A request placed on the
\* upgrade transaction once it is no longer open throws, and so does
\* createTables.  A unique index made over rows that share the value fails
\* after createIndex has returned: the engine aborts the upgrade.
RECURSIVE handler(_, _, _)
handler(u, store, metadata) ==
  IF u.todo # <<>>
    THEN LET version == Head(u.todo)
             started == [u EXCEPT !.todo = Tail(@),
                                  !.log = Append(@, Event("start", version))]
         IN CASE u.migrations[version] = "plain" ->
                   handler([started EXCEPT !.log = Append(@, Event("end", version))],
                           store, metadata)
              [] u.migrations[version] = "fails" ->
                   [up |-> [started EXCEPT !.pc = "threw", !.thrown = MigrationError],
                    store |-> store]
              [] u.migrations[version] = "request" /\ u.tx # "open" ->
                   [up |-> [started EXCEPT !.pc = "threw",
                                           !.thrown = TransactionInactiveError],
                    store |-> store]
              [] OTHER ->
                   [up |-> [started EXCEPT !.pc = "migrating", !.running = version],
                    store |-> store]
  ELSE IF u.tx # "open"
    THEN [up |-> [u EXCEPT !.pc = "threw", !.thrown = InvalidStateError,
                           !.log = Append(@, Event("createTables", 0))],
          store |-> store]
  ELSE LET c == createTable(metadata, store)
           called == [u EXCEPT !.log = Append(@, Event("createTables", 0))]
       IN IF c.err = ConstraintError
            THEN [up |-> [called EXCEPT !.pc = "synced", !.oncomplete = TRUE,
                                        !.tx = "aborting"],
                  store |-> c.store]
          ELSE IF IsErr(c.err)
            THEN [up |-> [called EXCEPT !.pc = "threw", !.thrown = c.err],
                  store |-> c.store]
          ELSE [up |-> [called EXCEPT !.pc = "synced", !.oncomplete = TRUE],
                store |-> c.store]

\* The script is back in the event loop: an upgrade transaction with no
\* request placed starts to commit.
returned(u) ==
  IF u.tx = "open" /\ ~(u.pc = "migrating" /\ u.migrations[u.running] = "request")
    THEN [u EXCEPT !.tx = "committing"]
    ELSE u

upgradeOnly ==
  /\ jsIdle
  /\ op' = NoOp
  /\ res' = NoResult
  /\ UNCHANGED <<idb, inits, rows, tx, co, cb, hist, table, q, clones, runs,
                 recs, gen, ret>>

\* The call itself is over, its events have been delivered and its handler
\* has ended.
upgradeOver ==
  \/ upgrade.pc = "idle"
  \/ /\ upgrade.pc \in {"synced", "threw"}
     /\ upgrade.succeeded \/ upgrade.tx = "aborted"

\* connection.ts: init(name, version, migrations), lines 160-169, of a page
\* that is not connected, at a version higher than the stored one: the open
\* request is made.
InitMigrations(version, migrations) ==
  /\ upgradeOnly
  /\ upgradeOver
  /\ ~db.connected
  /\ version > engine.version
  /\ upgrade' = [NoUpgrade EXCEPT !.pc = "requested", !.old = engine.version,
                                  !.new = version, !.migrations = migrations,
                                  !.promise = InitPending, !.base = engine]
  /\ UNCHANGED <<db, meta, engine>>

\* connection.ts: request.onupgradeneeded, lines 183-199, up to where the
\* handler waits or ends
UpgradeNeeded ==
  /\ upgradeOnly
  /\ upgrade.pc = "requested"
  /\ LET u == [upgrade EXCEPT
                 !.tx = "open",
                 !.todo = runMigrations(MigrationContext(upgrade.migrations),
                                        upgrade.old, upgrade.new)]
         h == handler(u, engine.store, meta["Test"])
     IN /\ upgrade' = returned(h.up)
        /\ engine' = [version |-> upgrade.new, open |-> TRUE, store |-> h.store,
                      before |-> engine.store.indexes]
  /\ db' = _updateDB(1, "test", upgrade.new)
  /\ UNCHANGED meta

\* The request the migration awaits succeeds: the migration ends and the
\* handler goes on, the upgrade transaction still open.
MigrationRequest ==
  /\ upgradeOnly
  /\ upgrade.pc = "migrating" /\ upgrade.migrations[upgrade.running] = "request"
  /\ LET u == [upgrade EXCEPT !.running = 0,
                              !.log = Append(@, Event("end", upgrade.running))]
         h == handler(u, engine.store, meta["Test"])
     IN /\ upgrade' = returned(h.up)
        /\ engine' = [engine EXCEPT !.store = h.store]
  /\ UNCHANGED <<db, meta>>

\* What the migration awaits outside the transaction arrives; the upgrade
\* transaction has had no request meanwhile.
MigrationTimer ==
  /\ upgradeOnly
  /\ upgrade.pc = "migrating" /\ upgrade.migrations[upgrade.running] = "timer"
  /\ LET u == [upgrade EXCEPT !.running = 0,
                              !.log = Append(@, Event("end", upgrade.running))]
         h == handler(u, engine.store, meta["Test"])
     IN /\ upgrade' = h.up
        /\ engine' = [engine EXCEPT !.store = h.store]
  /\ UNCHANGED <<db, meta>>

\* The upgrade transaction completes: connection.ts lines 194-199, if the
\* handler has set oncomplete.
UpgradeComplete ==
  /\ upgradeOnly
  /\ upgrade.tx = "committing"
  /\ upgrade' = [upgrade EXCEPT
                   !.tx = "complete",
                   !.log = Append(@, Event("complete", 0)),
                   !.promise = IF upgrade.oncomplete THEN resolve(@, 1, TRUE) ELSE @]
  /\ UNCHANGED <<db, meta, engine>>

\* connection.ts: request.onsuccess, lines 175-181, after the upgrade
UpgradeSuccess ==
  /\ upgradeOnly
  /\ upgrade.tx = "complete" /\ ~upgrade.succeeded
  /\ upgrade' = [upgrade EXCEPT !.succeeded = TRUE,
                                !.log = Append(@, Event("success", 0)),
                                !.promise = resolve(@, 1, FALSE)]
  /\ db' = _updateDB(1, "test", upgrade.new)
  /\ UNCHANGED <<meta, engine>>

\* The engine aborts the upgrade: the database is as it was, the connection
\* is closed, and request.onerror (connection.ts lines 171-173) rejects.
UpgradeAbort ==
  /\ upgradeOnly
  /\ upgrade.tx = "aborting"
  /\ upgrade' = [upgrade EXCEPT !.tx = "aborted",
                                !.log = Append(@, Event("abort", 0)),
                                !.promise = reject(@)]
  /\ engine' = [upgrade.base EXCEPT !.open = FALSE]
  /\ UNCHANGED <<db, meta>>

\* The page is loaded again: disconnect() (connection.ts lines 227-237) and
\* _resetMetadata() (metadata.ts lines 42-44)
PageReload ==
  /\ upgradeOnly
  /\ upgradeOver /\ upgrade.pc # "idle"
  /\ db' = Disconnected
  /\ meta' = [m \in SchemaModels |-> NoMetadata]
  /\ engine' = [engine EXCEPT !.open = FALSE]
  /\ upgrade' = NoUpgrade

\* SpecDeclare: the classes are declared, with the decorators or with
\* defineModel, and the page is loaded again.
FieldNames == {"id", "name"}
FieldOptionSet ==
  {Partial("unset", "unset", "unset", "unset"),
   Partial("true", "unset", "unset", "unset"),
   Partial("true", "unset", "true", "unset"),
   Partial("unset", "true", "unset", "false")}
IndexSet ==
  {IndexString(<<"*", "tags">>), IndexString(<<"&", "*", "tags">>),
   IndexString(<<"*", "tags", "+", "name">>), IndexString(<<"&", "id", "+", "name">>),
   IndexObject(<<"tags">>, TRUE, TRUE), IndexObject(<<"tags", "name">>, FALSE, TRUE)}
TableOptionSet ==
  {TableOptions("unset", <<>>), TableOptions("true", <<>>)}
    \cup {TableOptions("unset", <<Named("byTags", x)>>) : x \in IndexSet}
DefinitionSet ==
  {<<[name |-> "id", options |-> Partial("true", "unset", "unset", "unset")],
     [name |-> "name", options |-> o]>> : o \in FieldOptionSet}

NextDeclare ==
  \/ \E f \in FieldNames, o \in FieldOptionSet : DeclareField(f, o)
  \/ \E o \in TableOptionSet : DeclareTable(o)
  \/ \E d \in DefinitionSet, o \in TableOptionSet : DefineModel(d, o)
  \/ Reload

SpecDeclare == InitConnected /\ [][NextDeclare]_vars

\* SpecMigrate: the class is defined, the database is opened at a version,
\* rows are created, the page is loaded again with another definition of the
\* class and the database opened at a higher version.
MigrateDefinitions ==
  {<<[name |-> "id", options |-> Partial("true", "unset", "unset", "unset")]>>}
    \cup {<<[name |-> "id", options |-> Partial("true", "unset", "unset", "unset")],
            [name |-> "name", options |-> o]>> :
            o \in {Partial("unset", "unset", "unset", "unset"),
                   Partial("unset", "unset", "unset", "false"),
                   Partial("unset", "true", "unset", "unset"),
                   Partial("true", "unset", "unset", "unset")}}
MigrateOptions ==
  {TableOptions("unset", <<>>),
   TableOptions("unset", <<Named("byTags", IndexString(<<"*", "tags">>))>>),
   TableOptions("unset", <<Named("byTags", IndexString(<<"id", "+", "name">>))>>)}

DefineOnce(d, o) == ~meta["Test"].defined /\ DefineModel(d, o)

NextMigrate ==
  \/ \E d \in MigrateDefinitions, o \in MigrateOptions : DefineOnce(d, o)
  \/ Reload
  \/ \E v \in 1..MaxVersion : InitUpgrade(v)
  \/ \E id \in 1..MaxKey, v \in 0..MaxVal : StoreAdd(id, v)

SpecMigrate == InitConnected /\ [][NextMigrate]_vars

\* SpecUpgrade: the database is opened at a version with a list of
\* migrations, the page is loaded again and the database opened at a higher
\* version with another list.
NextUpgrade ==
  \/ \E v \in 1..MaxVersion, migrations \in MigrationLists :
       InitMigrations(v, migrations)
  \/ UpgradeNeeded
  \/ MigrationRequest
  \/ MigrationTimer
  \/ UpgradeComplete
  \/ UpgradeSuccess
  \/ PageReload

SpecUpgrade == Init /\ [][NextUpgrade]_vars

\* SpecRekey: the class is defined, the database is opened, rows are created,
\* the page is loaded again with another definition of the class (another
\* primary key, or a unique index) and the database opened at a higher
\* version, with no migration or with one that rewrites the rows.
RekeyDefinitions ==
  {<<[name |-> "id", options |-> Partial("true", "unset", "unset", "unset")]>>,
   <<[name |-> "id", options |-> Partial("true", "unset", "unset", "unset")],
     [name |-> "name", options |-> Partial("true", "unset", "unset", "unset")]>>,
   <<[name |-> "id", options |-> Partial("true", "unset", "unset", "unset")],
     [name |-> "name", options |-> Partial("unset", "true", "unset", "unset")]>>}
RekeyMigrations(version) ==
  {[k \in MigrationKeys |-> IF k = version THEN kind ELSE NoMigration] :
     kind \in {NoMigration, "request"}}

NextRekey ==
  \/ \E d \in RekeyDefinitions :
       upgrade.pc = "idle" /\ DefineOnce(d, TableOptions("unset", <<>>))
  \/ \E v \in 1..MaxVersion : \E migrations \in RekeyMigrations(v) :
       InitMigrations(v, migrations)
  \/ UpgradeNeeded
  \/ MigrationRequest
  \/ UpgradeComplete
  \/ UpgradeSuccess
  \/ UpgradeAbort
  \/ PageReload
  \/ \E id \in 1..2 : upgradeOver /\ StoreAdd(id, 0)

SpecRekey == Init /\ [][NextRekey]_vars

\* SpecEdit: the caller fills the store, builds a query, and deletes or
\* updates the rows it yields.
EditFilters ==
  {<<"a", Between(0, 1, FALSE, FALSE)>>, <<"b", Function("truthy")>>}
EditUpdates == {<<[key |-> "a", value |-> 1]>>}

NextEdit ==
  \/ \E id \in 1..MaxId, v \in 0..MaxVal : QCreate(id, v)
  \/ \E f \in EditFilters : QFilter(f[1], f[2])
  \/ \E field \in {<<"a">>, <<"-", "a">>} : QOrderBy(field)
  \/ QLimit(1)
  \/ QOffset(1)
  \/ QDelete
  \/ \E u \in EditUpdates : QUpdate(u)

SpecEdit == InitConnected /\ [][NextEdit]_vars

\* models.ts: update(values), lines 236-238, on the instance create answered:
\* Object.assign(this, values)
MUpdate(values) ==
  /\ modelOnly
  /\ ret.created # Null
  /\ ret' = [ret EXCEPT !.kind = "update", !.err = None, !.saved = FALSE,
                        !.created.fields = assign(@, values)]
  /\ UNCHANGED <<recs, gen>>

\* models.ts: save(), lines 218-230, on the instance, awaited
MSave ==
  /\ modelOnly
  /\ ret.created # Null
  /\ LET p == save(recs, ret.created) IN
       /\ recs' = p.stored
       /\ ret' = [ret EXCEPT !.kind = "save", !.err = p.err, !.saved = ~IsErr(p.err)]
  /\ UNCHANGED gen

\* SpecSave: records are created, the instance create answered is updated in
\* memory and saved, and read again.
SaveValues ==
  {[Blank EXCEPT !["id"] = id, !["s"] = sv] : id \in 1..MaxId, sv \in 0..MaxVal}
SaveUpdates == {<<[key |-> "s", value |-> 1]>>, <<[key |-> "id", value |-> 2]>>}

NextSave ==
  \/ \E values \in SaveValues : MCreate("One", values)
  \/ \E u \in SaveUpdates : MUpdate(u)
  \/ MSave
  \/ \E byKeys \in BOOLEAN : MGet(byKeys)

SpecSave == InitConnected /\ [][NextSave]_vars

\* part_009: Query.update(updates), lines 553-564, on the query of every row
\* of model m, awaited: the cursor of the store comes to each row once, and
\* the row is written back with the updates assigned. The updates name no
\* primary key.
MQueryUpdate(m, updates) ==
  /\ modelOnly
  /\ \E r \in recs : r.model = m
  /\ recs' = {r \in recs : r.model # m}
               \cup {StoredRec(m, assign(r.value, updates)) : r \in {x \in recs : x.model = m}}
  /\ ret' = [ret EXCEPT !.kind = "queryUpdate", !.err = None]
  /\ UNCHANGED gen

\* SpecRequired: records with a field declared nullable: false are created,
\* updated in memory and saved, and updated through a query.
RequiredValues ==
  {[Blank EXCEPT !["id"] = id, !["n"] = nv] :
     id \in 1..MaxId, nv \in {UndefinedV, NullV} \cup (0..MaxVal)}
RequiredUpdates ==
  {<<[key |-> "n", value |-> v]>> : v \in {UndefinedV, NullV, 1}}

NextRequired ==
  \/ \E values \in RequiredValues : MCreate("Three", values)
  \/ \E u \in RequiredUpdates : MUpdate(u)
  \/ MSave
  \/ \E u \in RequiredUpdates : MQueryUpdate("Three", u)

SpecRequired == InitConnected /\ [][NextRequired]_vars

\* SpecBranch: the caller builds a base pagination query (orderBy, offset,
\* limit), then branches it with clone(), narrows each clone with a filter and
\* runs the clones.  The base is left alone once it has been cloned.
BranchOrders == {"a", "-a"}
unbranched == \A c \in CloneIds : ~clones[c].made

NextBranch ==
  \/ \E f \in BranchOrders : unbranched /\ QOrderBy(f)
  \/ unbranched /\ QOffset(1)
  \/ unbranched /\ QLimit(1)
  \/ \E c \in CloneIds : QClone(c)
  \/ \E c \in CloneIds, v \in TestVals : CloneFilter(c, "b", Literal(v))
  \/ \E r \in Runners : RunAll(r)
  \/ \E r \in Runners : RunStep(r, "undefined")

SpecBranch == InitFilled /\ [][NextBranch]_vars

\* SpecUnawaited: scoped transactions whose callback creates rows, awaiting
\* the creation or not, waits for a timer, and returns or throws.
NextUnawaited ==
  \/ \E mode \in Modes, models \in (SUBSET Models) \ {{}} : Transaction(mode, models)
  \/ \E m \in Models, k \in Keys : CbCreate(m, k)
  \/ \E m \in Models, k \in Keys : CbCreateUnawaited(m, k)
  \/ CbWait
  \/ CbResolve
  \/ CbThrow
  \/ TimerFires
  \/ AutoCommit
  \/ RequestSuccess
  \/ \E order \in {"listener", "dispatch"} : RequestError(order)
  \/ UnawaitedSuccess
  \/ \E bubbles \in BOOLEAN : UnawaitedError(bubbles)
  \/ TransactionComplete

SpecUnawaited == InitConnected /\ [][NextUnawaited]_vars

\* SpecFind: the caller fills the store, narrows a query, and looks for one
\* record: by its key, or the first the query yields.
NextFind ==
  \/ \E id \in 1..MaxId, v \in 0..MaxVal : QCreate(id, v)
  \/ \E f \in {<<"b", Function("truthy")>>, <<"a", Literal(NullV)>>} :
       QFilter(f[1], f[2])
  \/ QLimit(0)
  \/ QOffset(1)
  \/ QFirst
  \/ \E k \in 1..MaxId : QGet(k)

SpecFind == InitConnected /\ [][NextFind]_vars

\* SpecConn: the life of the global connection, from the disconnected state,
\* with the operations issued while no connection is established.
TransactionDisconnected(mode, models) ==
  /\ ~db.connected
  /\ Transaction(mode, models)

ModelAllDisconnected(m) ==
  /\ ~db.connected
  /\ ModelAll(m)

NextConn ==
  \/ \E c \in Callers, ver \in Versions : InitCall(c, ver)
  \/ \E c \in Callers : OnUpgradeNeeded(c)
  \/ \E c \in Callers : OnUpgradeComplete(c)
  \/ \E c \in Callers : OnSuccess(c)
  \/ \E c \in Callers : OnError(c)
  \/ disconnect
  \/ \E mode \in Modes, models \in (SUBSET Models) \ {{}} :
       TransactionDisconnected(mode, models)
  \/ \E m \in Models : ModelAllDisconnected(m)

SpecConn == Init /\ [][NextConn]_vars

\* ================================================================== claims
\* The callback settled before any completion signal of the transaction.
cbRejectedFirst == hist.cbOutcome.st = "rejected" /\ hist.sigAtSettle = "none"
cbResolvedFirst == hist.cbOutcome.st = "resolved" /\ hist.sigAtSettle = "none"
wroteTo(s) == {w[2] : w \in {x \in hist.wrote : x[1] = s}}

\* C1: when the callback rejects with e before the transaction has completed
\* by itself, abort has been called, the outer call is rejected with exactly
\* e, and every store holds what it holds without the transaction's writes.
C1_RejectAbortsAndRethrows ==
  cbRejectedFirst =>
    /\ hist.abortCalled
    /\ co.outer = Rejected(hist.cbOutcome.val)
    /\ rows = hist.base

\* C2: when the callback resolves with v before the transaction has completed
\* by itself, commit has been called, the outer call is resolved with v, and
\* an operation started after that sees every row the callback wrote.
C2_ResolveCommitsAndReturns ==
  cbResolvedFirst =>
    /\ hist.commitCalled
    /\ co.outer = Resolved(hist.cbOutcome.val)
    /\ (op.kind = "all" /\ op.result = Ok
          => wroteTo(storeNameOf(op.model)) \subseteq op.keys)

\* C3: when the transaction completes by itself (complete or error signal)
\* while the callback is pending, the outer call is rejected with the
\* still-pending error.
C3_SignalWhilePendingRejectsPending ==
  (hist.signal # "none" /\ hist.cbAtSignal = "pending")
    => co.outer = Rejected(PendingError)

\* C5: a Transaction call on listed record types opens one native transaction
\* over exactly their effective storage names; in the callback the store of
\* every listed type resolves and that of an unlisted type does not.
C5_ScopeIsEffectiveNames ==
  co.outer.st # "idle" =>
    /\ hist.opened
    /\ tx.scope = {storeNameOf(m) : m \in hist.listed}
    /\ hist.resolvedOk \subseteq hist.listed
    /\ hist.resolvedErr \cap hist.listed = {}

\* C6: once the outer call is rejected with the still-pending error, every row
\* the callback created through the handle is in its store.
C6_PendingErrorKeepsWrites ==
  co.outer = Rejected(PendingError) =>
    \A w \in hist.wrote : w[2] \in rows[w[1]]

C6_Witness ==
  /\ co.outer = Rejected(PendingError)
  /\ hist.wrote # {}
  /\ cb.pc = "awaitTimer"

\* The errors a caller sees in a state: the rejection of the Transaction call,
\* the failure of an operation outside it, the exception of a query call.
VisibleErrors ==
  (IF co.outer.st = "rejected" THEN {co.outer.val} ELSE {})
    \cup (IF IsErr(op.result) THEN {op.result} ELSE {})
    \cup (IF IsErr(res.err) THEN {res.err} ELSE {})

C10_AllReturnsExactlyTheFittingRows ==
  res.kind = "all" =>
    /\ res.err = None
    /\ {res.rows[i] : i \in 1..Len(res.rows)} = {r \in table : _fitsFilters(q, r)}
    /\ Len(res.rows) = Cardinality({r \in table : _fitsFilters(q, r)})

\* C7: while the global record is not connected, resolving a store fails with
\* a ConnectionError, and a Transaction call is rejected with a ConnectionError
\* with no native transaction opened and the callback never invoked.
C7_DisconnectedIsConnectionError ==
  /\ (op.kind = "all" /\ ~db.connected) => op.result = ConnectionError
  /\ co.outer.st # "idle" =>
       /\ co.outer = Rejected(ConnectionError)
       /\ tx = NoTx /\ ~hist.opened
       /\ ~cb.invoked

C7_Witness ==
  /\ ~db.connected /\ idb.version > 0
  /\ op.kind = "all" /\ op.result = ConnectionError
  /\ co.outer = Rejected(ConnectionError)

\* C8: an init call made while the record is connected resolves with the
\* existing session and upgraded = false, and none of its later events opens a
\* native connection or changes the global record.
C8_InitWhileConnectedReuses ==
  [][\A c \in Callers :
       (inits[c].dbAtCall.connected /\ inits[c].st # "idle" /\ inits'[c] # inits[c]) =>
         /\ inits'[c].promise = InitResponse(inits[c].dbAtCall.session, FALSE)
         /\ db' = db
         /\ idb'.open = idb.open]_vars

\* C9: of two init calls issued before either completed, both resolve with
\* the same session and one native connection is open once both are done.
C9_ConcurrentInitsShareOneConnection ==
  \A c, d \in Callers :
    (/\ c < d /\ inits[d].concurrent
     /\ inits[c].st = "done" /\ inits[d].st = "done"
     /\ inits[c].promise.st = "resolved" /\ inits[d].promise.st = "resolved"
     /\ db.connected) =>
      /\ inits[c].promise.session = inits[d].promise.session
      /\ idb.open = {db.session}

\* C13: a query never has an index and an ordering field at once: withIndex
\* throws a WormError when an ordering field is set, orderBy throws a
\* WormError when an index is set (the query stays as it was), and once
\* resetIndex has cleared the index orderBy is accepted.
C13_IndexAndOrderExclusive ==
  [][/\ ~(q'._index # "" /\ q'._orderBy # "")
     /\ res'.kind = "withIndex" =>
          IF q._orderBy # ""
            THEN res'.err.kind = "WormError" /\ q' = q
            ELSE res'.err = None /\ q'._index # ""
     /\ res'.kind = "orderBy" =>
          IF q._index # ""
            THEN res'.err.kind = "WormError" /\ q' = q
            ELSE res'.err = None /\ q'._orderBy # ""
     /\ (q._index # "" /\ q'._index = "") =>
          LET r == orderBy(q', <<"a">>) IN r.err = None /\ r.q._orderBy = "a"]_vars

C13_Witness ==
  /\ res.kind = "orderBy" /\ res.err = OrderByError
  /\ q._index = "a" /\ q._orderBy = ""

\* The filtered and ordered result sequence of the query: what it answers
\* with no limit and no offset.
unpaged(qy) == [qy EXCEPT !._limit = UndefinedV, !._skip = UndefinedV]

\* C11: with R the filtered and ordered result sequence, all() answers the
\* rows R[k .. k+n) for offset k (0 when unset) and limit n (none when unset),
\* so never more than n rows; rows failing a filter are not in R and move
\* neither counter.
C11_AllReturnsThePage ==
  (res.kind = "all" /\ res.err = None) =>
    LET R == all(unpaged(q), table).rows
        k == IF q._skip = UndefinedV THEN 0 ELSE q._skip
        hi == IF q._limit = UndefinedV \/ k + q._limit > Len(R)
                THEN Len(R) ELSE k + q._limit
    IN /\ res.rows = SubSeq(R, k + 1, hi)
       /\ q._limit # UndefinedV => Len(res.rows) <= q._limit

C11_Witness ==
  /\ res.kind = "all" /\ res.err = None
  /\ q._limit = 1 /\ q._skip = 1 /\ q.filters # <<>>
  /\ Len(res.rows) = 1
  /\ Cardinality(table) = 2

\* Ascending / descending order of a sequence of rows by field f
ascending(rs, f) == \A i, j \in 1..Len(rs) : i < j => rs[i][f] <= rs[j][f]
descending(rs, f) == \A i, j \in 1..Len(rs) : i < j => rs[i][f] >= rs[j][f]
rowSet(rs) == {rs[i] : i \in 1..Len(rs)}

\* C12 (as stated): for a field f, orderBy('f').all() answers the rows in
\* ascending order of f, orderBy('-f').all() the same set in descending
\* order, and orderBy('f').reverse() answers as orderBy('-f') does.
C12_OrderByOrdersAnyField ==
  (res.kind = "all" /\ q._orderBy # "") =>
    LET f == q._orderBy
        up == all(orderBy(unpaged(q), <<f>>).q, table)
        down == all(orderBy(unpaged(q), <<"-", f>>).q, table)
    IN /\ res.err = None
       /\ up.err = None /\ ascending(up.rows, f)
       /\ down.err = None /\ descending(down.rows, f)
       /\ rowSet(down.rows) = rowSet(up.rows)
       /\ all(reverse(orderBy(unpaged(q), <<f>>).q), table) = down

\* C12 (amended): for a field f that has an index the above holds, and the
\* rows answered are the rows that fit the filters and hold a valid key in f;
\* for a field declared without index all() fails with the engine's
\* NotFoundError.
C12_OrderByOrdersIndexedField ==
  (res.kind = "all" /\ q._orderBy # "") =>
    LET f == q._orderBy
        up == all(orderBy(unpaged(q), <<f>>).q, table)
        down == all(orderBy(unpaged(q), <<"-", f>>).q, table)
    IN IF FieldIndex[f]
         THEN /\ res.err = None
              /\ up.err = None /\ ascending(up.rows, f)
              /\ down.err = None /\ descending(down.rows, f)
              /\ rowSet(down.rows) = rowSet(up.rows)
              /\ rowSet(up.rows) =
                   {r \in table : _fitsFilters(q, r) /\ IsValidKey(r[f])}
              /\ Len(up.rows) = Cardinality(rowSet(up.rows))
              /\ all(reverse(orderBy(unpaged(q), <<f>>).q), table) = down
         ELSE res.err = NotFoundError

C12_Witness ==
  /\ res.kind = "all" /\ res.err = None
  /\ q._orderBy = "a" /\ q._reverse
  /\ Len(res.rows) = 2 /\ res.rows[1].a > res.rows[2].a

\* v lies between the bounds of f, an open flag leaving the bound out and a
\* null bound leaving the side unbounded
between(f, v) ==
  /\ f.lower = NullV \/ (IF f.lowerOpen THEN f.lower < v ELSE f.lower <= v)
  /\ f.upper = NullV \/ (IF f.upperOpen THEN v < f.upper ELSE v <= f.upper)

\* C18: a Between filter matches exactly the values between its bounds
\* (closed by default, open where the flag is set, unbounded where the bound
\* is null): so says fits, so says the key range wherever the engine accepts
\* it, and so is the answer of a query filtered by it alone, for the rows that
\* hold a number in the field.
C18_BetweenMatchesTheRange ==
  (Len(q.filters) = 1 /\ q.filters[1].value.type = "between") =>
    LET f == q.filters[1].value
        key == q.filters[1].key
    IN /\ \A v \in 0..(MaxVal + 1) : fits(f, v) <=> between(f, v)
       /\ ~IsErr(keyRange(f).err) =>
            \A v \in 0..(MaxVal + 1) : inRange(keyRange(f), v) <=> between(f, v)
       /\ (res.kind = "all" /\ res.err = None) =>
            {r \in rowSet(res.rows) : IsValidKey(r[key])} =
              {r \in table : IsValidKey(r[key]) /\ between(f, r[key])}

C18_Witness ==
  /\ res.kind = "all" /\ res.err = None
  /\ q.filters = <<[key |-> "b", value |-> Between(0, MaxVal, TRUE, FALSE)]>>
  /\ Cardinality(table) = 2 /\ Len(res.rows) = 1
  /\ \E r \in table : r.b = 0

\* The rows the cursor loop of a query yields when nothing stops it
yielded(r) == _cursorLogic(thisOf(r), runs[r].seq, 1, 0, 0, <<>>, FALSE)

\* C14: forEach calls the callback once for each yielded row, in the order of
\* the cursor, with the row as an instance of the model and with the
\* transaction of the cursor; once the callback has answered a truthy value
\* forEach resolves and the callback is called for no later row; when forEach
\* resolves without such an answer, every yielded row has had its call.
C14_ForEachCallsOncePerYieldedRow ==
  runs["q"].kind = "forEach" =>
    LET me == runs["q"]
        Y == yielded("q")
        n == Len(me.calls)
    IN /\ n <= Len(Y)
       /\ \A k \in 1..n :
            /\ me.calls[k].instance = [model |-> "Test", fields |-> Y[k]]
            /\ me.calls[k].tx = me.tx
            /\ me.calls[k].answer = "true" =>
                 (k = n /\ me.promise = Resolved(Undefined))
       /\ (me.promise.st = "resolved" /\ \A k \in 1..n : me.calls[k].answer # "true") =>
            n = Len(Y)

C14_Witness ==
  /\ runs["q"].kind = "forEach"
  /\ Len(yielded("q")) = 2
  /\ Len(runs["q"].calls) = 1
  /\ runs["q"].calls[1].answer = "true"
  /\ runs["q"].promise = Resolved(Undefined)

\* C15: when the callback of forEach throws or answers a rejected promise, or
\* a step of the cursor fails after the callback was awaited, the promise of
\* forEach rejects with that error.
C15_ForEachFailureRejects ==
  \A r \in Runners :
    (runs[r].kind = "forEach" /\ runs[r].failure # None) =>
      runs[r].promise = Rejected(runs[r].failure)

\* C16: a clone run without further changes returns no row that a filter
\* entry the original had when it was cloned rejects.
C16_CloneAppliesThePrefix ==
  \A c \in CloneIds :
    (/\ runs[c].kind = "all" /\ runs[c].promise.st = "resolved"
     /\ clones[c].q.filters = <<>>) =>
      \A k \in 1..Len(runs[c].cs.out) :
        \A j \in 1..Len(clones[c].prefix) :
          fitsEntry(clones[c].prefix[j], runs[c].cs.out[k])

\* The query a clone or the original is by its own calls alone: the entries
\* set on it, over what it had when it was made.
byItsOwnCalls(r) ==
  IF r = "q" THEN q
  ELSE [clones[r].q EXCEPT !.filters = entries(@, clones[r].prefix)]

\* C17: the rows all() returns for the original and for each clone are those
\* of the query as its own calls made it: no filter set on another query after
\* the cloning changes them, whether set before its cursor loop or during it,
\* and whatever other cursor loops run at the same time.
C17_ClonesAreIsolated ==
  \A r \in Runners :
    (runs[r].kind = "all" /\ runs[r].promise.st = "resolved") =>
      runs[r].cs.out = all(byItsOwnCalls(r), table).rows

C17_Witness ==
  /\ runs["c1"].kind = "all" /\ runs["c1"].promise.st = "resolved"
  /\ runs["c2"].st = "open" /\ runs["c2"].i = 2
  /\ runs["q"].st = "open"
  /\ clones["c1"].q.filters # <<>>
  /\ clones["c2"].q.filters # <<>>
  /\ clones["c1"].q.filters # clones["c2"].q.filters
  /\ q.filters # clones["c1"].prefix
  /\ Len(runs["c1"].cs.out) = 1

\* The primary key of an instance: its component values in the order the
\* fields are declared in
declaredKey(instance) ==
  IF instance.model = "One" THEN <<instance.fields["id"]>>
  ELSE <<instance.fields["id"], instance.fields["id2"]>>

\* C19: after a create that succeeded, the keys of the instance are the values
\* of its primary key fields in the order of declaration, and get on that key,
\* given as the array of the components or, for a single component, as the
\* value itself, answers a record equal to the one create answered.
C19_GetAfterCreateIsEqual ==
  (ret.kind \in {"create", "get"} /\ ret.err = None) =>
    /\ keys(ret.created) = declaredKey(ret.created)
    /\ (/\ ret.kind = "get"
        /\ \/ ret.key.isArray /\ ret.key.parts = declaredKey(ret.created)
           \/ ~ret.key.isArray /\ <<ret.key.parts[1]>> = declaredKey(ret.created)) =>
         ret.got = ret.created

C19_Witness ==
  /\ ret.kind = "get" /\ ret.model = "Two"
  /\ ret.key = Array(<<2, 1>>)
  /\ ret.got = ret.created
  /\ ret.got.fields["id"] = 2 /\ ret.got.fields["id2"] = 1
  /\ Cardinality(recs) = 2

\* C20: a create that succeeded stored, in each field that has a default, the
\* default (the static value, or what the generator answered to its one
\* invocation) if the caller gave no value, and the value the caller gave
\* otherwise; the generator is invoked once for each field it fills and never
\* for a field the caller gave.
C20_DefaultsFillWhatIsMissing ==
  ret.kind = "create" =>
    LET fields == tableFields(ret.model)
        generated == {i \in 1..Len(fields) :
                        /\ fields[i].default.kind = "generator"
                        /\ ret.values[fields[i].name] = UndefinedV}
    IN /\ ret.err.kind # "ModelError" => gen - ret.genBefore = Cardinality(generated)
       /\ ret.err = None =>
            \E r \in recs :
              /\ r.model = ret.model /\ r.key = declaredKey(ret.created)
              /\ \A i \in 1..Len(fields) :
                   fields[i].default.kind # "none" =>
                     r.value[fields[i].name] =
                       IF ret.values[fields[i].name] # UndefinedV
                         THEN ret.values[fields[i].name]
                       ELSE IF fields[i].default.kind = "generator"
                         THEN GenBase + ret.genBefore
                         ELSE DefaultS

C20_Witness ==
  /\ ret.kind = "create" /\ ret.err = None /\ ret.model = "Two"
  /\ ret.values["g"] = UndefinedV
  /\ ret.genBefore = 1 /\ gen = 2
  /\ ret.created.fields["g"] = GenBase + 1
  /\ \E r \in recs : r.model = "One" /\ r.value["s"] = DefaultS

\* The first declared field that is not nullable, has no default, and was
\* given no value ("" when there is none): the primary key fields.
firstMissing(m, values) ==
  IF values["id"] = UndefinedV THEN "id"
  ELSE IF m = "Two" /\ values["id2"] = UndefinedV THEN "id2"
  ELSE ""

\* C21: a create that leaves out a non-nullable field without default is
\* rejected with a ModelError whose message names the field and says it is
\* not nullable, and the store is as it was.
C21_MissingFieldIsRejected ==
  [][(ret'.kind = "create" /\ firstMissing(ret'.model, ret'.values) # "") =>
       /\ ret'.err.kind = "ModelError"
       /\ ret'.err.msg = IF firstMissing(ret'.model, ret'.values) = "id"
                           THEN "Field id is not nullable"
                           ELSE "Field id2 is not nullable"
       /\ recs' = recs]_vars

C21_Witness ==
  /\ ret.kind = "create" /\ ret.model = "Two"
  /\ ret.values["id"] = 1 /\ ret.values["id2"] = UndefinedV
  /\ ret.err = Err("ModelError", "Field id2 is not nullable")
  /\ recs # {}

\* C22: a create whose primary key is already held in the store is rejected
\* with the engine's ConstraintError, and the store is as it was.
C22_CreateIsInsertOnly ==
  [][(/\ ret'.kind = "create"
      /\ firstMissing(ret'.model, ret'.values) = ""
      /\ \E r \in recs : r.model = ret'.model
                         /\ r.key = declaredKey(Instance(ret'.model, ret'.values))) =>
       /\ ret'.err = ConstraintError
       /\ recs' = recs]_vars

C22_Witness ==
  /\ ret.kind = "create" /\ ret.model = "One"
  /\ ret.err = ConstraintError
  /\ ret.values["s"] = 0
  /\ \E r \in recs : r.model = "One" /\ r.key = <<ret.values["id"]>> /\ r.value["s"] = DefaultS

\* The rows of the store a query lets through, and how many of them its
\* offset leaves out
fitting(qy, tbl) == {r \in tbl : _fitsFilters(qy, r)}
skips(qy) == IF qy._skip = UndefinedV THEN 0 ELSE qy._skip

\* C23: get on a key the store does not hold resolves with null, and first()
\* on a query that yields no row (no row fits, or the offset leaves out every
\* fitting row, or the limit is 0) resolves with null, never rejecting;
\* first() resolves with one row otherwise.
C23_NotFoundIsNull ==
  [][/\ (ret' # ret /\ ret'.kind = "get"
           /\ ~\E r \in table : <<r.id>> = ret'.key.parts) =>
          (ret'.err = None /\ ret'.got = Null)
     /\ res'.kind = "first" =>
          /\ res'.err = None
          /\ IF Cardinality(fitting(q, table)) <= skips(q) \/ q._limit = 0
               THEN res'.rows = <<>>
               ELSE Len(res'.rows) = 1 /\ res'.rows[1] \in fitting(q, table)]_vars

\* What a declared index asks for, read off the declaration: the fields it
\* names, unique when "&" is written or the flag set, multi-valued when "*"
\* is written or the flag set
asked(index) ==
  IF index.form = "object" THEN Index(index.fields, index.unique, index.multiEntry)
  ELSE Index(SelectSeq(index.text, LAMBDA c : c \notin {"&", "*", "+"}),
             \E i \in 1..Len(index.text) : index.text[i] = "&",
             \E i \in 1..Len(index.text) : index.text[i] = "*")
validIndex(x) == ~(x.unique /\ x.multiEntry) /\ (x.multiEntry => Len(x.fields) <= 1)
validFields(metadata) ==
  \A i \in 1..Len(metadata.fields) :
    ~(metadata.fields[i].options.primaryKey /\ metadata.fields[i].options.nullable)

\* C25: every definition of the registry has no nullable primary-key field,
\* no index both unique and multi-valued, no multi-valued index over more
\* than one field; a Field, Table or defineModel declaration that breaks one
\* of these answers an error, and neither the field nor the indexes it
\* declares are registered.
C25_RegistryHoldsValidDefinitions ==
  [][/\ \A m \in SchemaModels :
          /\ validFields(meta'[m])
          /\ \A x \in meta'[m].indexes : validIndex(x.index)
     /\ \A f \in FieldNames, o \in FieldOptionSet :
          (DeclareField(f, o) /\ o.primaryKey = "true" /\ o.nullable = "true") =>
            (IsErr(ret'.err) /\ meta' = meta)
     /\ \A o \in TableOptionSet :
          (DeclareTable(o) /\ \E i \in 1..Len(o.indexes) : ~validIndex(asked(o.indexes[i].index))) =>
            (IsErr(ret'.err) /\ meta'["Test"].indexes = meta["Test"].indexes)
     /\ \A d \in DefinitionSet, o \in TableOptionSet :
          (/\ DefineModel(d, o)
           /\ \/ \E i \in 1..Len(d) : d[i].options.primaryKey = "true" /\ d[i].options.nullable = "true"
              \/ \E i \in 1..Len(o.indexes) : ~validIndex(asked(o.indexes[i].index))) =>
            (IsErr(ret'.err) /\ meta'["Test"].indexes = meta["Test"].indexes)]_vars

\* The index names the registry declares for the class: the fields whose
\* index flag is true and the extra indexes
declaredNames(metadata) ==
  {metadata.fields[i].name : i \in {j \in 1..Len(metadata.fields) : metadata.fields[j].options.index}}
    \cup {x.name : x \in metadata.indexes}
indexNames(store) == {i.name : i \in store.indexes}
sameIndex(i, j) ==
  /\ i.name = j.name /\ i.unique = j.unique /\ i.multiEntry = j.multiEntry
  /\ i.keyPath.fields = j.keyPath.fields

materialized(metadata) ==
  /\ metadata.defined
  /\ ~(metadata.abstract = "true" \/ (metadata.abstract = "unset" /\ metadata.hasChild))

\* C24: when init at a higher version has opened the database and the
\* synchronisation of the tables ran to its end, the index names of the store
\* of the class, when it is declared and materialized, are the fields whose
\* index flag is true plus the extra index names; an index that is declared
\* as before is as before, and the rows are as before.
C24_UpgradeSyncsTheIndexes ==
  [][(/\ engine'.version > engine.version /\ engine.store.exists
      /\ materialized(meta["Test"]) /\ ret'.err = None) =>
       /\ indexNames(engine'.store) = declaredNames(meta["Test"])
       /\ \A i \in engine.store.indexes :
            (/\ i.name \in declaredNames(meta["Test"])
             /\ sameIndex(i, IDBIndex(i.name, indexDefOf(meta["Test"], i.name)))) =>
              i \in engine'.store.indexes
       /\ engine'.store.rows = engine.store.rows
       /\ engine'.store.keyPath = engine.store.keyPath]_vars

\* The second version of the class has no name field and no extra index: the
\* index of name and the index byTags are gone, the index of id and the row
\* are kept.
C24_Witness ==
  /\ engine.version = 2 /\ engine.open
  /\ indexNames([indexes |-> engine.before]) = {"id", "name", "byTags"}
  /\ indexNames(engine.store) = {"id"}
  /\ engine.store.rows # {}
  /\ ret.kind = "init" /\ ret.err = None

\* C26: when a create through the handle of a scoped transaction fails with
\* the engine's constraint error and the callback rejects with it, the
\* Transaction call is rejected with that constraint error, whichever of the
\* request's listener and the transaction's error handler runs first, and
\* the stores are as they were before the transaction was opened.
C26_ConstraintErrorPropagates ==
  hist.cbOutcome = Rejected(ConstraintError) =>
    /\ co.outer = Rejected(ConstraintError)
    /\ rows = hist.base

\* The rows a query yields from a store: the rows of its cursor that pass
\* every filter, after the offset, within the limit
yields(qy, tbl) ==
  LET R == SelectSeq(_getCursor(qy, tbl).seq, LAMBDA r : _fitsFilters(qy, r))
      k == skips(qy)
      hi == IF qy._limit = UndefinedV \/ k + qy._limit > Len(R)
              THEN Len(R) ELSE k + qy._limit
  IN SubSeq(R, k + 1, hi)
rowsOf(seq) == {seq[i] : i \in 1..Len(seq)}

\* C27: delete() removes from the store the rows the query yields and no
\* other row, and answers their number.
C27_DeleteRemovesTheYieldedRows ==
  [][(res'.kind = "delete" /\ res'.err = None) =>
       /\ table' = table \ rowsOf(yields(q, table))
       /\ res'.amount = Len(yields(q, table))]_vars

C27_Witness ==
  /\ res.kind = "delete" /\ res.err = None /\ res.amount = 1
  /\ Cardinality(table) = 1
  /\ q._skip = 1 /\ q._limit = 1 /\ q.filters # <<>>

\* C28: update(partial) gives every row the query yields the values of
\* partial in the fields partial names, leaves their other fields and every
\* other row as they were, and answers the number of rows the query yields.
C28_UpdateMergesIntoTheYieldedRows ==
  [][\A u \in EditUpdates :
       (QUpdate(u) /\ res'.err = None) =>
         /\ table' = (table \ rowsOf(yields(q, table)))
                       \cup {assign(r, u) : r \in rowsOf(yields(q, table))}
         /\ res'.amount = Len(yields(q, table))]_vars

\* A value lies in the native range of a filter when the engine made the
\* range, the value is a key, and the key is within the bounds
liesIn(f, v) ==
  ~IsErr(keyRange(f).err) /\ IsValidKey(v) /\ inRange(keyRange(f), v)

\* C29: for every range filter and every value of a field, the value lies in
\* the range keyRange() builds exactly when fits(value) is true; a query
\* filtered by the range alone answers the rows whose field fits, through the
\* index of the field as through the cursor of the store.
C29_KeyRangeAgreesWithFits ==
  (Len(q.filters) = 1 /\ q.filters[1].value.type = "between") =>
    LET f == q.filters[1].value
        key == q.filters[1].key
    IN /\ \A v \in FieldVals : liesIn(f, v) <=> fits(f, v)
       /\ res.kind = "all" =>
            /\ res.err = None
            /\ rowSet(res.rows) = {r \in table : fits(f, r[key])}

\* C30: update(values) on an instance leaves the stored records as they
\* were; save() puts the instance under its key, in the place of the record
\* held there or as a new record, and changes no other record; get on the key
\* of a saved instance answers a record equal to the instance.
C30_SaveOverwritesByKey ==
  [][/\ ret'.kind = "update" => recs' = recs
     /\ (ret'.kind = "save" /\ ret'.err = None) =>
          LET k == declaredKey(ret.created) IN
          /\ \A r \in recs : (r.model # ret.model \/ r.key # k) => r \in recs'
          /\ \A r \in recs' :
               \/ r \in recs /\ (r.model # ret.model \/ r.key # k)
               \/ r = [model |-> ret.model, key |-> k, value |-> ret.created.fields]
          /\ \E r \in recs' : r.model = ret.model /\ r.key = k
     /\ (ret'.kind = "get" /\ ret'.saved) => ret'.got = ret'.created]_vars

C30_Witness ==
  /\ ret.kind = "get" /\ ret.saved /\ ret.got = ret.created
  /\ ret.created.fields["id"] = 2 /\ ret.created.fields["s"] = 1
  /\ ret.values["id"] = 1 /\ ret.values["s"] = 0
  /\ Cardinality(recs) = 2
  /\ \E r \in recs : r.key = <<1>> /\ r.value["s"] = 0

\* The query a clone would be if it carried the ordering field, the direction,
\* the offset and the limit of the base it was branched from, with the
\* filter entries set on the clone itself.
pagedLikeTheBase(c) == [q EXCEPT !.filters = clones[c].q.filters]

\* C31: a clone of a base pagination query (orderBy, offset, limit, no
\* filter) carries the ordering field, the direction, the offset and the
\* limit of the base, and all() on the clone returns the page the base query
\* with the clone's filters returns.
C31_CloneIsPaginatedLikeTheBase ==
  \A c \in CloneIds :
    clones[c].made =>
      /\ clones[c].q._orderBy = q._orderBy
      /\ clones[c].q._reverse = q._reverse
      /\ clones[c].q._skip = q._skip
      /\ clones[c].q._limit = q._limit
      /\ (runs[c].kind = "all" /\ runs[c].promise.st = "resolved") =>
           runs[c].cs.out = all(pagedLikeTheBase(c), table).rows

\* The places of the log where an event happened
places(ev, version) ==
  {i \in 1..Len(upgrade.log) : upgrade.log[i] = Event(ev, version)}
listed(version) ==
  /\ version \in MigrationKeys
  /\ upgrade.migrations[version] # NoMigration
  /\ upgrade.old < version /\ version <= upgrade.new

\* C32: in an upgrade from the stored version old to the requested version
\* new, the migrations started are migrations of the list with old < key <=
\* new, each started once, in ascending key order, and none before every
\* migration started earlier has ended; createTables is called only when
\* every migration of the list with old < key <= new has ended; and init has
\* resolved with upgraded = true only if the upgrade transaction has completed.
C32_MigrationsRunInOrderBeforeTheSync ==
  /\ \A v \in MigrationKeys :
       /\ places("start", v) # {} => listed(v)
       /\ Cardinality(places("start", v)) <= 1
       /\ \A i \in places("end", v) : \E j \in places("start", v) : j < i
  /\ \A v \in MigrationKeys, w \in MigrationKeys :
       \A i \in places("start", v), j \in places("start", w) :
         i < j => /\ v < w
                  /\ \E k \in places("end", v) : k < j
  /\ \A i \in places("createTables", 0) :
       \A v \in MigrationKeys :
         listed(v) => \E k \in places("end", v) : k < i
  /\ (upgrade.promise.st = "resolved" /\ upgrade.promise.upgraded) =>
       /\ upgrade.tx = "complete"
       /\ \E i \in places("createTables", 0), j \in places("complete", 0) : i < j

\* An upgrade from version 1 to version 2 with a migration under each
\* version, the one of version 2 awaiting a request of the transaction: the
\* migration of version 1 is not run, the one of version 2 has ended before
\* the tables were synchronised, and init has resolved after the completion.
C32_Witness ==
  /\ upgrade.old = 1 /\ upgrade.new = 2
  /\ upgrade.migrations[1] = "plain" /\ upgrade.migrations[2] = "request"
  /\ upgrade.log = <<Event("start", 2), Event("end", 2), Event("createTables", 0),
                     Event("complete", 0), Event("success", 0)>>
  /\ upgrade.promise = InitResponse(1, TRUE)

\* The class declares other primary-key fields than the key path of the store
\* the database held when init was called.
rekeyed ==
  /\ upgrade.pc # "idle"
  /\ materialized(meta["Test"])
  /\ upgrade.base.store.exists
  /\ ~_compareArrays(upgrade.base.store.keyPath, primaryKeys(meta["Test"].fields))

\* C33: when the declared primary-key fields of the class differ from the key
\* path of its existing store, init at a higher version does not resolve, and
\* once the events of its open request have been delivered it has rejected
\* (with the error of the different primary key).
C33_ChangedPrimaryKeyRejectsInit ==
  rekeyed =>
    /\ upgrade.promise.st # "resolved"
    /\ upgradeOver => upgrade.promise.st = "rejected"

\* C34: once the outer Transaction call has resolved, the native transaction
\* is committing or has committed, never aborted, and once it has committed
\* every row written in it is in the stores.
C34_ResolvedMeansCommitted ==
  co.outer.st = "resolved" =>
    /\ tx.state \in {"committing", "finished"}
    /\ tx.state = "finished" => \A w \in hist.wrote : w[2] \in rows[w[1]]

\* C35: of commit and abort the coordinator calls at most one for a scoped
\* transaction, and it calls it while the transaction is open (active or
\* inactive): never on a transaction that is committing, has completed or has
\* aborted, as it is when the callback settles after the outer call rejected
\* with the still-pending error.
C35_CommitOrAbortOnceWhileOpen ==
  /\ ~(hist.commitCalled /\ hist.abortCalled)
  /\ (hist.commitCalled \/ hist.abortCalled) =>
       hist.stateAtSettle \in {"active", "inactive"}

\* C36: from the return of disconnect() to the next init call, the global
\* connection stays disconnected: no event of an init call made before
\* disconnect returned connects it or installs a session.
C36_DisconnectedUntilTheNextInit ==
  [][(~db.connected /\ db' # db) =>
       \A c \in Callers : inits'[c] # inits[c] => ~inits[c].stale]_vars

\* The query without its ordering
unordered(qy) == [qy EXCEPT !._orderBy = "", !._reverse = FALSE]

\* C37: for a field f that has an index, whatever the rows hold in f and
\* whatever the filters, all() of the query ordered by f, offset and limit
\* left out, succeeds and answers the rows all() answers without the
\* ordering, each once, in another order.
C37_OrderByKeepsTheRows ==
  (res.kind = "all" /\ q._orderBy # "" /\ FieldIndex[q._orderBy]) =>
    LET ordered == all(unpaged(q), table)
        plain == all(unordered(unpaged(q)), table)
    IN /\ ordered.err = None /\ plain.err = None
       /\ rowSet(ordered.rows) = rowSet(plain.rows)
       /\ Len(ordered.rows) = Len(plain.rows)


\* C38: update(partial) comes to each stored row at most once: the number it
\* answers is the number of distinct rows the query yielded when it began,
\* also when partial writes the field whose index the cursor runs over.
C38_UpdateCountsEachRowOnce ==
  [][\A u \in EditUpdates :
       (QUpdate(u) /\ res'.err = None) =>
         res'.amount = Cardinality(rowsOf(yields(q, table)))]_vars


\* C39: every stored record holds a value that is neither undefined nor null
\* in every field its model declares as not nullable.
C39_RequiredFieldsAreStored ==
  \A r \in recs :
    \A i \in 1..Len(tableFields(r.model)) :
      ~tableFields(r.model)[i].nullable =>
        r.value[tableFields(r.model)[i].name] \notin {UndefinedV, NullV}

====
